---------------------------- MODULE Spec2Model ----------------------------
(***************************************************************************)
(* A model of the statistics core of GoatCounter: the Memstore write       *)
(* buffer, the cron tasks PersistAndStat / UpdateStats / ReindexStats, and *)
(* the location_stats aggregator.                                          *)
(*                                                                         *)
(* Tables are bags of rows (no unique index is visible in the sources).    *)
(* A database statement can fail; a failing statement inside zdb.TX rolls  *)
(* the transaction back.                                                   *)
(***************************************************************************)
EXTENDS Integers, Sequences, FiniteSets, Bags, TLC

VARIABLES
    tables,         \* the rollup tables: table name -> bag of rows
    sites,          \* the sites table: site id -> [State, ReceivedData]
    hitsTable,      \* the hits table: the stored hits, in insertion order
    LastMemstore,   \* cron.LastMemstore: the time of the last PersistAndStat that persisted; 0 is the zero time
    memHits,        \* Memstore: the buffered hits
    appended,       \* history: every hit given to Memstore.Append, in order
    drained,        \* history: the hits the Memstore.Persist calls drained, in order
    aggHits,        \* history: the hits of every successful direct updateLocationStats call
    reindexed,      \* history: one of those calls was made with isReindex
    lastCall,       \* history: the last cron call, its arguments and what it did
    nHits,          \* number of hits handed to the program so far
    sessionSalt,    \* Memstore: the high 8 bytes of the session identifiers
    sessionID,      \* Memstore: the low 8 bytes of the last identifier
    epoch,          \* history: the number of RefreshSalt calls so far
    issued,         \* history: the identifiers SessionID returned, [hi, lo, epoch]
    settings,       \* query engine: site id -> [DataRetention, Offset, Page] of Site.Settings
    rawHits,        \* query engine: the hits table with creation times, a bag of hits
    hitCounts,      \* query engine: the hit_counts table, a bag of rows
    hitStats,       \* query engine: the hit_stats table, a bag of rows
    lastQuery,      \* history: the last query-engine call and its result
    lastRetention,  \* history: the last DataRetention call and what it did
    pathsTable,     \* the paths table, rows in insertion order
    changedTitles,  \* the zcache of path.go: key (path id) -> list of titles
    pathProc,       \* the callers of Hit.Defaults: where each one is and its locals
    pathResults,    \* history: what the finished calls returned
    titleSeen,      \* history: key -> the titles recorded since the entry was last deleted
    nPathCalls,     \* number of calls of Hit.Defaults started so far
    lastImport,     \* history: the last Import call, its file and what it did
    exportHits,     \* the number of hits of the site in hits_export, with the IDs 1..exportHits
    exportsTable,   \* the exports table, rows in insertion order
    exportFiles,    \* export id -> the hit IDs of the rows in its file, or Removed
    exportProc,     \* the goroutine in Export.Run: where it is, its locals, its context
    exportWritten   \* history: export id -> the hit IDs Run wrote to the file

dbVars == <<tables, sites, hitsTable>>
memVars == <<memHits, appended, drained>>
sessVars == <<sessionSalt, sessionID, epoch, issued>>
queryVars == <<settings, rawHits, hitCounts, hitStats, lastQuery, lastRetention>>
pathVars == <<pathsTable, changedTitles, pathProc, pathResults, titleSeen, nPathCalls>>
portVars == <<lastImport, exportHits, exportsTable, exportFiles, exportProc, exportWritten>>
vars == <<LastMemstore, dbVars, memVars, sessVars, aggHits, reindexed, lastCall, nHits, queryVars, pathVars, portVars>>

\* Bound on the number of hits handed to the program in one behaviour.
MaxHits == 2
\* The last time the clock of PersistAndStat reaches.
MaxClock == 2

\* Bound on the number of hits handed to direct updateLocationStats calls.
MaxLocHits == 3

\* Bounds on the SessionID calls and on the RefreshSalt calls of one behaviour.
MaxSessionIDs == 4

MaxRefresh == 2

\* Bound on the days the time ranges of fillBlankDays span.
MaxFillDays == 3

\* Bound on the days of the sequences given to applyOffset.
MaxOffsetDays == 3

\* Bound on the number of hits stored for the query engine in one behaviour.
MaxStored == 2

\* Calls of Hit.Defaults one after the other.
MaxPathCalls == 2

\* Calls of Hit.Defaults that may overlap.
MaxRaceCalls == 3

\* Calls of Hit.Defaults that change the title of one path: the title is
\* written after it was seen more than ten times.
MaxTitleCalls == 13

\* Lines of an imported file after the header.
MaxImportLines == 3

\* Hits of the site in hits_export.
MaxExportHits == 3

\* The page of the export, 5000 hits in the program.
ExportLimit == 2

\* Exports created.
MaxExports == 2

(***************************************************************************)
(* Hits.  CreatedAt is a day of August 2019; Location is the free-form     *)
(* string Hit.Location (ExportRow.Hit copies it from the CSV unvalidated); *)
(* Bot is a Go int (ExportRow.Hit accepts any integer).                    *)
(***************************************************************************)
TheSite == 1

Hit(site, path, loc, day, bot, first) ==
    [Site |-> site, PathID |-> path, Location |-> loc, CreatedAt |-> day,
     Bot |-> bot, FirstVisit |-> first]

\* The hits the producers append and the reindex command passes: two sites,
\* human, bot and negative bot codes.
CronHits ==
    { Hit(1, 1, "", 31, 0, TRUE),
      Hit(1, 1, "", 31, 1, FALSE),
      Hit(2, 1, "", 31, 0, FALSE),
      Hit(2, 1, "", 31, -1, TRUE) }

\* The hits of one site the aggregator specification draws its batches from.
LocHits ==
    { Hit(TheSite, 1, "1", 31, 0, TRUE),
      Hit(TheSite, 11, "", 31, 0, FALSE),
      Hit(TheSite, 1, "", 31, 0, TRUE),
      Hit(TheSite, 1, "", 30, 0, FALSE),
      Hit(TheSite, 1, "", 31, 1, TRUE),
      Hit(TheSite, 1, "", 31, -1, FALSE) }

RECURSIVE SeqsUpTo(_, _)
SeqsUpTo(S, n) ==
    IF n = 0 THEN {<<>>}
    ELSE LET shorter == SeqsUpTo(S, n - 1)
         IN  shorter \cup {Append(s, x) : s \in {t \in shorter : Len(t) = n - 1}, x \in S}

\* strconv.FormatInt(n, 10) for n >= 0.
Digit(d) ==
    CASE d = 0 -> "0" [] d = 1 -> "1" [] d = 2 -> "2" [] d = 3 -> "3" [] d = 4 -> "4"
      [] d = 5 -> "5" [] d = 6 -> "6" [] d = 7 -> "7" [] d = 8 -> "8" [] OTHER -> "9"

RECURSIVE FormatInt(_)
FormatInt(n) == IF n < 10 THEN Digit(n) ELSE FormatInt(n \div 10) \o Digit(n % 10)

\* time.Format("2006-01-02") of a day of August 2019.
FormatDay(d) == "2019-08-" \o Digit(d \div 10) \o Digit(d % 10)

(***************************************************************************)
(* location_stats                                                          *)
(***************************************************************************)
LocRow(site, day, path, loc, count, unique) ==
    [site_id |-> site, day |-> day, path_id |-> path, location |-> loc,
     count |-> count, count_unique |-> unique]

LocMatches(r, site, day, loc, path) ==
    r.site_id = site /\ r.day = day /\ r.location = loc /\ r.path_id = path

\* delete from location_stats where site_id=$1 and day=$2 and location=$3 and path_id=$4
LocDelete(tbl, site, day, loc, path) ==
    [r \in {x \in BagToSet(tbl) : ~LocMatches(x, site, day, loc, path)} |-> tbl[r]]

\* existingLocationStats as it would be with the empty result not handled: no
\* row is an error.
existingLocationStatsNoRows(tbl, siteID, day, location, pathID, fail) ==
    LET c == {r \in BagToSet(tbl) : LocMatches(r, siteID, day, location, pathID)}
    IN  IF fail = "select" \/ c = {}
        THEN {[count |-> 0, countUnique |-> 0, tbl |-> tbl, err |-> TRUE]}
        ELSE {[count |-> r.count, countUnique |-> r.count_unique,
               tbl |-> IF fail = "delete" THEN tbl
                       ELSE LocDelete(tbl, siteID, day, location, pathID),
               err |-> fail = "delete"]
              : r \in c}

\* existingLocationStats as it would be without the delete: the row that was
\* read stays in the table.
existingLocationStatsKeepsRow(tbl, siteID, day, location, pathID, fail) ==
    LET c == {r \in BagToSet(tbl) : LocMatches(r, siteID, day, location, pathID)}
    IN  IF fail = "select"
        THEN {[count |-> 0, countUnique |-> 0, tbl |-> tbl, err |-> TRUE]}
        ELSE IF c = {}
        THEN {[count |-> 0, countUnique |-> 0, tbl |-> tbl, err |-> FALSE]}
        ELSE {[count |-> r.count, countUnique |-> r.count_unique, tbl |-> tbl,
               err |-> fail = "delete"]
              : r \in c}

\* select count, count_unique ... limit 1, then delete ... of the same key.
\* Without an order by, limit 1 may return any of the matching rows: the
\* result is the set of possible outcomes [count, countUnique, tbl, err].
\* fail names the statement that fails when it is executed.
existingLocationStats(tbl, siteID, day, location, pathID, fail) ==
    LET c == {r \in BagToSet(tbl) : LocMatches(r, siteID, day, location, pathID)}
    IN  IF fail = "select"
        THEN {[count |-> 0, countUnique |-> 0, tbl |-> tbl, err |-> TRUE]}
        ELSE IF c = {}
        THEN {[count |-> 0, countUnique |-> 0, tbl |-> tbl, err |-> FALSE]}
        ELSE {[count |-> r.count, countUnique |-> r.count_unique,
               tbl |-> IF fail = "delete" THEN tbl
                       ELSE LocDelete(tbl, siteID, day, location, pathID),
               err |-> fail = "delete"]
              : r \in c}

\* The map key of one hit: day + h.Location + strconv.FormatInt(h.PathID, 10).
LocKey(h) == FormatDay(h.CreatedAt) \o h.Location \o FormatInt(h.PathID)

\* Go's zero value of gt for a key the map does not hold.
LocGet(grouped, k) ==
    IF k \in DOMAIN grouped THEN grouped[k]
    ELSE [count |-> 0, countUnique |-> 0, day |-> "", location |-> "", pathID |-> 0]

\* The hits the loop skips.
LocSkips(h) == h.Bot > 0

\* The test as it would be if reindexing merged too: the existing row is read
\* in either mode.
LocReadsExistingAlways(first, isReindex) == first

\* Whether the loop reads (and deletes) the existing row of a group: for the
\* first hit of the group, unless reindexing.
LocReadsExisting(first, isReindex) == first /\ ~isReindex

\* One iteration of the loop over hits, from the state st = [grouped, tbl, err]:
\* the set of states after it.  Once err is set the function has returned.
LocStep(st, h, isReindex, fail) ==
    IF st.err \/ LocSkips(h) THEN {st}
    ELSE
      LET k == LocKey(h)
          v == LocGet(st.grouped, k)
          first == v.count = 0
          day == FormatDay(h.CreatedAt)
          v0 == [v EXCEPT !.day = day, !.location = h.Location, !.pathID = h.PathID]
          starts ==
            IF LocReadsExisting(first, isReindex)
            THEN {[v |-> [v0 EXCEPT !.count = e.count, !.countUnique = e.countUnique],
                   tbl |-> e.tbl, err |-> e.err]
                  : e \in existingLocationStats(st.tbl, h.Site, day, h.Location, h.PathID, fail)}
            ELSE IF first
            THEN {[v |-> v0, tbl |-> st.tbl, err |-> FALSE]}
            ELSE {[v |-> v, tbl |-> st.tbl, err |-> FALSE]}
      IN  {IF s.err THEN [st EXCEPT !.err = TRUE]
           ELSE [grouped |-> (k :> [s.v EXCEPT !.count = @ + 1,
                                               !.countUnique = @ + (IF h.FirstVisit THEN 1 ELSE 0)])
                             @@ st.grouped,
                 tbl |-> s.tbl, err |-> FALSE]
           : s \in starts}

RECURSIVE LocLoop(_, _, _, _)
LocLoop(sts, hits, isReindex, fail) ==
    IF hits = <<>> THEN sts
    ELSE LocLoop(UNION {LocStep(st, Head(hits), isReindex, fail) : st \in sts},
                 Tail(hits), isReindex, fail)

\* bulk insert of one row per group.
LocInsert(st, siteID) ==
    st.tbl (+) SetToBag({LocRow(siteID, st.grouped[k].day, st.grouped[k].pathID,
                                st.grouped[k].location, st.grouped[k].count,
                                st.grouped[k].countUnique) : k \in DOMAIN st.grouped})

\* updateLocationStats as it would be outside a transaction: a failing
\* statement leaves what the statements before it did.
updateLocationStatsNoTX(tbl, siteID, hits, isReindex, fail) ==
    IF fail = "begin" THEN {[err |-> TRUE, tbl |-> tbl]}
    ELSE {IF st.err \/ (fail = "insert" /\ DOMAIN st.grouped # {})
          THEN [err |-> TRUE, tbl |-> st.tbl]
          ELSE [err |-> FALSE, tbl |-> LocInsert(st, siteID)]
          : st \in LocLoop({[grouped |-> <<>>, tbl |-> tbl, err |-> FALSE]},
                           hits, isReindex, fail)}

\* updateLocationStats in a transaction (zdb.TX) on table tbl, for the site of
\* the context: the set of possible results [err, tbl].  fail names the
\* statement that fails if it is executed ("none", "begin", "select",
\* "delete", "insert"); an error rolls the transaction back.
updateLocationStats(tbl, siteID, hits, isReindex, fail) ==
    IF fail = "begin" THEN {[err |-> TRUE, tbl |-> tbl]}
    ELSE {IF st.err \/ (fail = "insert" /\ DOMAIN st.grouped # {})
          THEN [err |-> TRUE, tbl |-> tbl]
          ELSE [err |-> FALSE, tbl |-> LocInsert(st, siteID)]
          : st \in LocLoop({[grouped |-> <<>>, tbl |-> tbl, err |-> FALSE]},
                           hits, isReindex, fail)}

(***************************************************************************)
(* The six aggregators whose sources are not at hand (hit_counts,          *)
(* ref_counts, hit_stats, browser_stats, system_stats, size_stats), after  *)
(* the common algorithm: group by (day, path), start from an existing row  *)
(* unless reindexing, delete it, count the hits whose bot code is 0, and   *)
(* insert one row per group, all in one transaction.                       *)
(***************************************************************************)
CommonRow(site, day, path, count, unique) ==
    [site_id |-> site, day |-> day, path_id |-> path, count |-> count, count_unique |-> unique]

CommonKeys(hits) ==
    {<<FormatDay(hits[i].CreatedAt), hits[i].PathID>> : i \in {j \in DOMAIN hits : hits[j].Bot = 0}}

CommonCount(hits, key, uniqueOnly) ==
    Cardinality({i \in DOMAIN hits :
        /\ hits[i].Bot = 0
        /\ <<FormatDay(hits[i].CreatedAt), hits[i].PathID>> = key
        /\ (uniqueOnly => hits[i].FirstVisit)})

CommonExisting(tbl, siteID, key) ==
    {r \in BagToSet(tbl) : r.site_id = siteID /\ r.day = key[1] /\ r.path_id = key[2]}

updateCommon(tbl, siteID, hits, isReindex, fail) ==
    LET keys == CommonKeys(hits)
        zero == [count |-> 0, count_unique |-> 0]
        starts(k) == IF isReindex \/ CommonExisting(tbl, siteID, k) = {} THEN {zero}
                     ELSE {[count |-> r.count, count_unique |-> r.count_unique]
                           : r \in CommonExisting(tbl, siteID, k)}
        picks == {f \in [keys -> UNION {starts(k) : k \in keys}] : \A k \in keys : f[k] \in starts(k)}
        kept == IF isReindex THEN tbl
                ELSE [r \in {x \in BagToSet(tbl) : <<x.day, x.path_id>> \notin keys
                                                   \/ x.site_id # siteID} |-> tbl[r]]
    IN  IF fail THEN {[err |-> TRUE, tbl |-> tbl]}
        ELSE {[err |-> FALSE,
               tbl |-> kept (+) SetToBag({CommonRow(siteID, k[1], k[2],
                                            f[k].count + CommonCount(hits, k, FALSE),
                                            f[k].count_unique + CommonCount(hits, k, TRUE))
                                          : k \in keys})]
              : f \in picks}

(***************************************************************************)
(* cron: UpdateStats, ReindexStats, PersistAndStat                         *)
(***************************************************************************)
\* The aggregators in the order of UpdateStats' funs.
Funs == <<"hit_counts", "ref_counts", "hit_stats", "browser_stats", "system_stats",
          "location_stats", "size_stats">>

TableNames == {Funs[i] : i \in DOMAIN Funs}

\* Where a call fails: at = 0 nowhere; at = k in 1..7 in aggregator k, for
\* location_stats in statement stmt; at = 8 in site.UpdateReceivedData;
\* at = 9 in site.ByID.
NoFail == [at |-> 0, stmt |-> "begin"]

Fails ==
    {[at |-> k, stmt |-> "begin"] : k \in 0..9}
      \cup {[at |-> 6, stmt |-> s] : s \in {"select", "delete", "insert"}}

\* One aggregator on its table.
RunFun(name, tbl, siteID, hits, isReindex, fail) ==
    IF name = "location_stats"
    THEN updateLocationStats(tbl, siteID, hits, isReindex,
                             IF Funs[6] = name /\ fail.at = 6 THEN fail.stmt ELSE "none")
    ELSE updateCommon(tbl, siteID, hits, isReindex,
                      fail.at \in DOMAIN Funs /\ Funs[fail.at] = name)

\* The loop as it would be without the return on an error: the aggregators
\* after the failed one are run too.
RECURSIVE RunFunsContinue(_, _, _, _, _, _, _)
RunFunsContinue(i, tbls, ran, siteID, hits, isReindex, fail) ==
    IF i > Len(Funs) THEN {[err |-> FALSE, tables |-> tbls, ran |-> ran]}
    ELSE UNION {
           IF r.err
           THEN {[err |-> TRUE, tables |-> x.tables, ran |-> x.ran]
                 : x \in RunFunsContinue(i + 1, tbls, Append(ran, Funs[i]),
                                         siteID, hits, isReindex, fail)}
           ELSE RunFunsContinue(i + 1, [tbls EXCEPT ![Funs[i]] = r.tbl], Append(ran, Funs[i]),
                                siteID, hits, isReindex, fail)
           : r \in RunFun(Funs[i], tbls[Funs[i]], siteID, hits, isReindex, fail)}

\* The loop over funs from aggregator i on: the set of [err, tables, ran],
\* ran being the aggregators called so far.
RECURSIVE RunFuns(_, _, _, _, _, _, _)
RunFuns(i, tbls, ran, siteID, hits, isReindex, fail) ==
    IF i > Len(Funs) THEN {[err |-> FALSE, tables |-> tbls, ran |-> ran]}
    ELSE UNION {
           IF r.err THEN {[err |-> TRUE, tables |-> tbls, ran |-> Append(ran, Funs[i])]}
           ELSE RunFuns(i + 1, [tbls EXCEPT ![Funs[i]] = r.tbl], Append(ran, Funs[i]),
                        siteID, hits, isReindex, fail)
           : r \in RunFun(Funs[i], tbls[Funs[i]], siteID, hits, isReindex, fail)}

\* site.UpdateReceivedData: sets the site's received_data flag.
UpdateReceivedData(db, siteID) == [db EXCEPT ![siteID].ReceivedData = TRUE]

\* A nil *Site.
NilSite == [ID |-> 0, State |-> "", ReceivedData |-> FALSE]

\* UpdateStats as it would be with the flag set before the error of the loop
\* is looked at.
UpdateStatsAlwaysReceived(tbls, db, site, siteID, hits, isReindex, fail) ==
    IF site = NilSite /\ (fail.at = 9 \/ siteID \notin DOMAIN db)
    THEN {[err |-> TRUE, tables |-> tbls, sites |-> db, ran |-> <<>>]}
    ELSE {[err |-> r.err, tables |-> r.tables, sites |-> UpdateReceivedData(db, siteID),
           ran |-> r.ran]
          : r \in RunFuns(1, tbls, <<>>, siteID, hits, isReindex, fail)}

\* UpdateStats(ctx, site, siteID, hits, isReindex); a nil site loads the
\* site by its ID.  The set of [err, tables, sites, ran].
UpdateStats(tbls, db, site, siteID, hits, isReindex, fail) ==
    IF site = NilSite /\ (fail.at = 9 \/ siteID \notin DOMAIN db)
    THEN {[err |-> TRUE, tables |-> tbls, sites |-> db, ran |-> <<>>]}
    ELSE
      LET loaded == IF site = NilSite THEN db[siteID] ELSE site
      IN  {IF r.err THEN [err |-> TRUE, tables |-> r.tables, sites |-> db, ran |-> r.ran]
           ELSE IF loaded.ReceivedData
           THEN [err |-> FALSE, tables |-> r.tables, sites |-> db, ran |-> r.ran]
           ELSE IF fail.at = 8
           THEN [err |-> TRUE, tables |-> r.tables, sites |-> db, ran |-> r.ran]
           ELSE [err |-> FALSE, tables |-> r.tables,
                 sites |-> UpdateReceivedData(db, siteID), ran |-> r.ran]
           : r \in RunFuns(1, tbls, <<>>, siteID, hits, isReindex, fail)}

\* goatcounter.StateActive
StateActive == "a"

NoFailR == [idx |-> 0, at |-> 0, stmt |-> "begin"]

\* Where a ReindexStats call fails: in the idx-th table name, and for "all"
\* at the place [at, stmt] of UpdateStats.
ReindexFails(names) ==
    {NoFailR} \cup {[idx |-> i, at |-> f.at, stmt |-> f.stmt]
                    : i \in DOMAIN names, f \in {g \in Fails : g.at \in 1..8}}

\* The loop over tables from the i-th name on: the set of [err, tables, sites].
RECURSIVE ReindexLoop(_, _, _, _, _, _, _)
ReindexLoop(i, tbls, db, site, hits, names, fail) ==
    IF i > Len(names) THEN {[err |-> FALSE, tables |-> tbls, sites |-> db]}
    ELSE
      LET t == names[i]
          here == fail.idx = i
          rs == IF t = "all"
                THEN {[err |-> r.err, tables |-> r.tables, sites |-> r.sites]
                      : r \in UpdateStats(tbls, db, site, site.ID, hits, TRUE,
                                          IF here THEN [at |-> fail.at, stmt |-> fail.stmt]
                                          ELSE NoFail)}
                ELSE IF t = "location_stats"
                THEN {[err |-> r.err, tables |-> [tbls EXCEPT ![t] = r.tbl], sites |-> db]
                      : r \in updateLocationStats(tbls[t], site.ID, hits, TRUE,
                                                  IF here THEN fail.stmt ELSE "none")}
                ELSE IF t \in TableNames
                THEN {[err |-> r.err, tables |-> [tbls EXCEPT ![t] = r.tbl], sites |-> db]
                      : r \in updateCommon(tbls[t], site.ID, hits, TRUE, here)}
                ELSE {[err |-> FALSE, tables |-> tbls, sites |-> db]}
      IN  UNION {IF r.err THEN {r}
                 ELSE ReindexLoop(i + 1, r.tables, r.sites,
                                  [site EXCEPT !.ReceivedData = r.sites[site.ID].ReceivedData],
                                  hits, names, fail)
                 : r \in rs}

\* ReindexStats as it would be without the two early returns.
ReindexStatsNoGuard(tbls, db, site, hits, names, fail) ==
    ReindexLoop(1, tbls, db, site, hits, names, fail)

\* ReindexStats(ctx, site, hits, tables): the set of [err, tables, sites].
ReindexStats(tbls, db, site, hits, names, fail) ==
    IF site.State # StateActive THEN {[err |-> FALSE, tables |-> tbls, sites |-> db]}
    ELSE IF Len(hits) = 0 THEN {[err |-> FALSE, tables |-> tbls, sites |-> db]}
    ELSE ReindexLoop(1, tbls, db, site, hits, names, fail)

(***************************************************************************)
(* Memstore (its source is not at hand): Append adds a hit to the buffer   *)
(* under the lock; Persist swaps the buffer for an empty one under the     *)
(* lock, stores the drained hits and returns them.                         *)
(***************************************************************************)
MemstoreAppend(buf, h) == Append(buf, h)

\* Persist as it would be with the swap forgotten: the drained hits stay buffered.
MemstorePersistKeepsBuffer(buf, stored, fails) ==
    [hits |-> buf, err |-> fails, buf |-> buf,
     stored |-> IF fails THEN stored ELSE stored \o buf]

\* Persist: [hits, err, buf, stored]; when storing fails the drained hits are
\* not stored and the error is returned.
MemstorePersist(buf, stored, fails) ==
    [hits |-> buf, err |-> fails, buf |-> <<>>,
     stored |-> IF fails THEN stored ELSE stored \o buf]

\* The values a salt is drawn from.
Salts == {1, 2, 3}

\* SessionID as it would be without the increment.
MemstoreSessionIDSame(salt, counter) == [hi |-> salt, lo |-> counter]

\* SessionID: the next identifier [hi, lo] and the counter after it.
MemstoreSessionID(salt, counter) == [hi |-> salt, lo |-> counter + 1]

\* RefreshSalt as it would be if the new salt could equal the old one.
MemstoreRefreshSaltAny(salt) == Salts

\* RefreshSalt: the salts a refresh of salt may choose.
MemstoreRefreshSalt(salt) == Salts \ {salt}

\* The grouping loop of PersistAndStat: the hits of site s it keeps.
GroupedHits(hits, s) == SelectSeq(hits, LAMBDA h : ~(h.Bot > 0) /\ h.Site = s)

GroupedSites(hits) == {hits[i].Site : i \in {j \in DOMAIN hits : ~(hits[j].Bot > 0)}}

\* The loop over grouped; the sites' updates touch disjoint rows, so the
\* map's iteration order is taken ascending.  The set of
\* [tables, sites, calls], calls: site -> [err, ran, at] of its UpdateStats
\* (at: where it was made to fail).
RECURSIVE StatLoop(_, _, _, _, _, _)
\* lastMemstore.Set(t): the stored time becomes t.
LastMemstoreSet(last, t) == t

StatLoop(todo, tbls, db, hits, failOf, calls) ==
    IF todo = {} THEN {[tables |-> tbls, sites |-> db, calls |-> calls]}
    ELSE
      LET s == CHOOSE x \in todo : \A y \in todo : x <= y
      IN  UNION {StatLoop(todo \ {s}, r.tables, r.sites, hits, failOf,
                          (s :> [err |-> r.err, ran |-> r.ran, at |-> failOf[s].at]) @@ calls)
                 : r \in UpdateStats(tbls, db, NilSite, s, GroupedHits(hits, s), FALSE, failOf[s])}

\* PersistAndStat that returns the error of the last failed UpdateStats call
\* and sets LastMemstore in every call.
PersistAndStatReturnsStatErr(tbls, db, buf, stored, last, now, persistFails, failOf) ==
    LET p == MemstorePersist(buf, stored, persistFails)
    IN  {[err |-> p.err \/ (\E s \in DOMAIN r.calls : r.calls[s].err), persistErr |-> p.err,
          tables |-> r.tables, sites |-> r.sites, buf |-> p.buf, stored |-> p.stored,
          hits |-> p.hits, calls |-> r.calls, last |-> now]
         : r \in StatLoop(GroupedSites(p.hits), tbls, db, p.hits, failOf, <<>>)}

\* PersistAndStat(ctx): the set of [err, persistErr, tables, sites, buf, stored,
\* hits, calls, last].  last is LastMemstore after the call and now the value
\* goatcounter.Now() returns; persistErr is the error Memstore.Persist returned.
\* The error of an UpdateStats call is a variable of the loop body: it is
\* logged, and the function returns the error of Persist, which is nil there.
PersistAndStat(tbls, db, buf, stored, last, now, persistFails, failOf) ==
    LET p == MemstorePersist(buf, stored, persistFails)
    IN  IF p.err
        THEN {[err |-> TRUE, persistErr |-> TRUE, tables |-> tbls, sites |-> db, buf |-> p.buf,
               stored |-> p.stored, hits |-> p.hits, calls |-> <<>>, last |-> last]}
        ELSE {[err |-> FALSE, persistErr |-> FALSE, tables |-> r.tables, sites |-> r.sites,
               buf |-> p.buf, stored |-> p.stored, hits |-> p.hits, calls |-> r.calls,
               last |-> LastMemstoreSet(last, now)]
              : r \in StatLoop(GroupedSites(p.hits), tbls, db, p.hits, failOf, <<>>)}


(***************************************************************************)
(* Query engine.  A time is a number of half hours since 2019-08-01 00:00  *)
(* in the time zone of the call (start and end of one call are in the same *)
(* zone): 48 to the day, 2 to the hour.  An hour array is a sequence of 24 *)
(* integers, hour h at index h + 1.                                        *)
(***************************************************************************)
\* t.Format("2006-01-02")
FormatDate(t) == FormatDay(t \div 48 + 1)

\* The day of the month a formatted day stands for: the formatted days
\* compare as these do.
ParseDay(day) == CHOOSE d \in 1..99 : FormatDay(d) = day

\* The hour of the day of t, t.Format("15").
HourOf(t) == (t \div 2) % 24

\* var allDays: 24 zeroes.
allDays == [h \in 1..24 |-> 0]

Stat(day, hourly, hourlyUnique) ==
    [Day |-> day, Hourly |-> hourly, HourlyUnique |-> hourlyUnique, Daily |-> 0, DailyUnique |-> 0]

\* A HitStat as List builds it before the totals are added.
HitStat(path, stats) == [PathID |-> path, Stats |-> stats, Count |-> 0, CountUnique |-> 0, Max |-> 0]

\* No call of the query engine yet.
NoQuery == [op |-> "none"]

\* No call of DataRetention since the tables or the settings last changed.
NoRetention == [op |-> "none"]

\* The loop of fillBlankDays over the days for one HitStat, day being the day
\* of the last iteration: [done, stats].  The days only grow, so once day is
\* past the day of end the loop never breaks: done is FALSE.
RECURSIVE FillLoop(_, _, _, _, _)
FillLoop(stats, day, end, j, newStat) ==
    LET next == day + 48
        dayFmt == FormatDate(next)
        found == j <= Len(stats) /\ dayFmt = stats[j].Day
        ns == Append(newStat, IF found THEN stats[j] ELSE Stat(dayFmt, allDays, allDays))
    IN  IF dayFmt = FormatDate(end) THEN [done |-> TRUE, stats |-> ns]
        ELSE IF next \div 48 > end \div 48 THEN [done |-> FALSE, stats |-> ns]
        ELSE FillLoop(stats, next, end, IF found THEN j + 1 ELSE j, ns)

\* fillBlankDays without the test of start.After(end).
fillBlankDaysNoGuard(hh, start, end) ==
    LET rs == [i \in DOMAIN hh |-> FillLoop(hh[i].Stats, start - 48, end, 1, <<>>)]
    IN  [done |-> \A i \in DOMAIN hh : rs[i].done,
         hh |-> [i \in DOMAIN hh |-> [hh[i] EXCEPT !.Stats = rs[i].stats]]]

\* fillBlankDays with a blank day put in place of a fetched one.
fillBlankDaysAllBlank(hh, start, end) ==
    IF start > end THEN [done |-> TRUE, hh |-> hh]
    ELSE [done |-> TRUE,
          hh |-> [i \in DOMAIN hh |->
                    [hh[i] EXCEPT !.Stats = FillLoop(<<>>, start - 48, end, 1, <<>>).stats]]]

\* fillBlankDays(hh, start, end): [done, hh]; done is FALSE when a loop
\* never breaks.
fillBlankDays(hh, start, end) ==
    IF start > end THEN [done |-> TRUE, hh |-> hh]
    ELSE LET rs == [i \in DOMAIN hh |-> FillLoop(hh[i].Stats, start - 48, end, 1, <<>>)]
         IN  [done |-> \A i \in DOMAIN hh : rs[i].done,
              hh |-> [i \in DOMAIN hh |-> [hh[i] EXCEPT !.Stats = rs[i].stats]]]

\* Go's % and / on ints: truncated towards zero.
GoRem(a, n) == IF a >= 0 THEN a % n ELSE -((-a) % n)

GoDiv(a, n) == IF a >= 0 THEN a \div n ELSE -((-a) \div n)

\* The conversion as it would be with the sign of the offset lost.
OffsetHoursAbs(offset) ==
    LET o == IF GoRem(offset, 60) # 0 THEN offset + 30 ELSE offset
    IN  IF o >= 0 THEN GoDiv(o, 60) ELSE GoDiv(-o, 60)

\* The offset in hours applyOffset works with, from the zone's offset in minutes.
OffsetHours(offset) ==
    LET o == IF GoRem(offset, 60) # 0 THEN offset + 30 ELSE offset
    IN  GoDiv(o, 60)

\* The loop of case offset > 0 from the i-th day on.
RECURSIVE ShiftRight(_, _, _, _, _, _)
ShiftRight(stats, i, offset, popped, poppedUnique, acc) ==
    IF i > Len(stats) THEN acc
    ELSE LET h == popped \o stats[i].Hourly
             o == Len(h) - offset
             u == poppedUnique \o stats[i].HourlyUnique
         IN  ShiftRight(stats, i + 1, offset, SubSeq(h, o + 1, Len(h)), SubSeq(u, o + 1, Len(u)),
                        Append(acc, [stats[i] EXCEPT !.Hourly = SubSeq(h, 1, o),
                                                     !.HourlyUnique = SubSeq(u, 1, o)]))

\* The loop of case offset < 0 from the i-th day down.
RECURSIVE ShiftLeft(_, _, _, _, _, _)
ShiftLeft(stats, i, offset, popped, poppedUnique, acc) ==
    IF i < 1 THEN acc
    ELSE LET h == stats[i].Hourly \o popped
             u == stats[i].HourlyUnique \o poppedUnique
         IN  ShiftLeft(stats, i - 1, offset, SubSeq(h, 1, offset), SubSeq(u, 1, offset),
                       <<[stats[i] EXCEPT !.Hourly = SubSeq(h, offset + 1, Len(h)),
                                          !.HourlyUnique = SubSeq(u, offset + 1, Len(u))]>> \o acc)

\* make([]int, offset)
Zeroes(n) == [h \in 1..n |-> 0]

\* applyOffset without the carry from day to day: every day is shifted and
\* filled with zeroes.
applyOffsetNoCarry(hh, offset) ==
    LET n == OffsetHours(offset)
        shift(st) == IF n > 0
                     THEN [st EXCEPT !.Hourly = Zeroes(n) \o SubSeq(st.Hourly, 1, 24 - n),
                                     !.HourlyUnique = Zeroes(n) \o SubSeq(st.HourlyUnique, 1, 24 - n)]
                     ELSE [st EXCEPT !.Hourly = SubSeq(st.Hourly, 1 - n, 24) \o Zeroes(-n),
                                     !.HourlyUnique = SubSeq(st.HourlyUnique, 1 - n, 24) \o Zeroes(-n)]
    IN  IF n = 0 THEN [panic |-> FALSE, hh |-> hh]
        ELSE IF \E i \in DOMAIN hh : Len(hh[i].Stats) = 0 THEN [panic |-> TRUE, hh |-> hh]
        ELSE [panic |-> FALSE,
              hh |-> [i \in DOMAIN hh |->
                        LET all == [k \in DOMAIN hh[i].Stats |-> shift(hh[i].Stats[k])]
                        IN  [hh[i] EXCEPT !.Stats = IF n > 0 THEN Tail(all)
                                                     ELSE SubSeq(all, 1, Len(all) - 1)]]]

\* applyOffset as it would be without the removal of the overselected day.
applyOffsetKeepsDays(hh, offset) ==
    LET n == OffsetHours(offset)
    IN  IF Len(hh) = 0 \/ n = 0 THEN [panic |-> FALSE, hh |-> hh]
        ELSE IF \E i \in DOMAIN hh : Len(hh[i].Stats) = 0 THEN [panic |-> TRUE, hh |-> hh]
        ELSE IF n > 0
        THEN [panic |-> FALSE,
              hh |-> [i \in DOMAIN hh |->
                        [hh[i] EXCEPT !.Stats = ShiftRight(hh[i].Stats, 1, n, Zeroes(n), Zeroes(n), <<>>)]]]
        ELSE [panic |-> FALSE,
              hh |-> [i \in DOMAIN hh |->
                        [hh[i] EXCEPT !.Stats = ShiftLeft(hh[i].Stats, Len(hh[i].Stats), -n,
                                                          Zeroes(-n), Zeroes(-n), <<>>)]]]

\* applyOffset(hh, site) for a site whose zone has the offset in minutes:
\* [panic, hh]; stats[1:] and stats[:len(stats)-1] panic on an empty stats.
applyOffset(hh, offset) ==
    LET n == OffsetHours(offset)
    IN  IF Len(hh) = 0 \/ n = 0 THEN [panic |-> FALSE, hh |-> hh]
        ELSE IF \E i \in DOMAIN hh : Len(hh[i].Stats) = 0 THEN [panic |-> TRUE, hh |-> hh]
        ELSE IF n > 0
        THEN [panic |-> FALSE,
              hh |-> [i \in DOMAIN hh |->
                        [hh[i] EXCEPT !.Stats =
                            Tail(ShiftRight(hh[i].Stats, 1, n, Zeroes(n), Zeroes(n), <<>>))]]]
        ELSE [panic |-> FALSE,
              hh |-> [i \in DOMAIN hh |->
                        [hh[i] EXCEPT !.Stats =
                            LET all == ShiftLeft(hh[i].Stats, Len(hh[i].Stats), -n,
                                                 Zeroes(-n), Zeroes(-n), <<>>)
                            IN  SubSeq(all, 1, Len(all) - 1)]]]

(***************************************************************************)
(* Query engine: the tables it reads.  Here a hit's CreatedAt is a time in *)
(* half hours, hit_counts has one row per (site, path, hour) and hit_stats *)
(* one row per (site, path, day) with two hour arrays.  Their aggregators  *)
(* (sources not at hand) follow the common algorithm: start from the       *)
(* existing row of the key, delete it, add one per hit and one per first   *)
(* visit, insert.                                                          *)
(***************************************************************************)
\* Site.Settings as far as the query engine and the retention task read them:
\* DataRetention in days, the zone's Offset in minutes, Limits.Page.
DefaultSettings(s) == [DataRetention |-> 0, Offset |-> 0, Page |-> IF s = 2 THEN 1 ELSE 0]

HitAt(site, path, at, first) ==
    [Site |-> site, PathID |-> path, CreatedAt |-> at, Bot |-> 0, FirstVisit |-> first]

\* The start of the hour t lies in.
HourBucket(t) == (t \div 2) * 2

RECURSIVE SumSeq(_)
SumSeq(s) == IF Len(s) = 0 THEN 0 ELSE s[1] + SumSeq(Tail(s))

RECURSIVE SumOver(_, _)
SumOver(f, S) == IF S = {} THEN 0 ELSE LET x == CHOOSE y \in S : TRUE IN f[x] + SumOver(f, S \ {x})

HitCountRow(site, path, hour, total, unique) ==
    [site_id |-> site, path_id |-> path, hour |-> hour, total |-> total, total_unique |-> unique]

HitStatRow(site, path, day, stats, unique) ==
    [site_id |-> site, path_id |-> path, day |-> day, stats |-> stats, stats_unique |-> unique]

\* The number of hits of the batch in group key: <<path, hour>>.
HourCount(hits, key, uniqueOnly) ==
    Cardinality({i \in DOMAIN hits :
        /\ hits[i].Bot = 0
        /\ <<hits[i].PathID, HourBucket(hits[i].CreatedAt)>> = key
        /\ (uniqueOnly => hits[i].FirstVisit)})

\* updateHitCounts(hits, isReindex = false): the tables it may leave.
updateHitCounts(tbl, siteID, hits) ==
    LET keys == {<<hits[i].PathID, HourBucket(hits[i].CreatedAt)>>
                 : i \in {j \in DOMAIN hits : hits[j].Bot = 0}}
        zero == [total |-> 0, total_unique |-> 0]
        existing(k) == {r \in BagToSet(tbl) : r.site_id = siteID /\ r.path_id = k[1] /\ r.hour = k[2]}
        starts(k) == IF existing(k) = {} THEN {zero}
                     ELSE {[total |-> r.total, total_unique |-> r.total_unique] : r \in existing(k)}
        picks == {f \in [keys -> UNION {starts(k) : k \in keys}] : \A k \in keys : f[k] \in starts(k)}
        kept == [r \in {x \in BagToSet(tbl) : <<x.path_id, x.hour>> \notin keys
                                               \/ x.site_id # siteID} |-> tbl[r]]
    IN  {kept (+) SetToBag({HitCountRow(siteID, k[1], k[2],
                                f[k].total + HourCount(hits, k, FALSE),
                                f[k].total_unique + HourCount(hits, k, TRUE)) : k \in keys})
         : f \in picks}

\* DayCounts as it would be if every hit counted as a first visit.
DayCountsAll(hits, key, uniqueOnly) ==
    [h \in 1..24 |->
        Cardinality({i \in DOMAIN hits :
            /\ hits[i].Bot = 0
            /\ <<hits[i].PathID, FormatDate(hits[i].CreatedAt)>> = key
            /\ HourOf(hits[i].CreatedAt) = h - 1})]

\* The hour array of the hits of the batch in group key: <<path, day>>.
DayCounts(hits, key, uniqueOnly) ==
    [h \in 1..24 |->
        Cardinality({i \in DOMAIN hits :
            /\ hits[i].Bot = 0
            /\ <<hits[i].PathID, FormatDate(hits[i].CreatedAt)>> = key
            /\ HourOf(hits[i].CreatedAt) = h - 1
            /\ (uniqueOnly => hits[i].FirstVisit)})]

\* updateHitStats(hits, isReindex = false): the tables it may leave.
updateHitStats(tbl, siteID, hits) ==
    LET keys == {<<hits[i].PathID, FormatDate(hits[i].CreatedAt)>>
                 : i \in {j \in DOMAIN hits : hits[j].Bot = 0}}
        zero == [stats |-> allDays, stats_unique |-> allDays]
        existing(k) == {r \in BagToSet(tbl) : r.site_id = siteID /\ r.path_id = k[1] /\ r.day = k[2]}
        starts(k) == IF existing(k) = {} THEN {zero}
                     ELSE {[stats |-> r.stats, stats_unique |-> r.stats_unique] : r \in existing(k)}
        picks == {f \in [keys -> UNION {starts(k) : k \in keys}] : \A k \in keys : f[k] \in starts(k)}
        kept == [r \in {x \in BagToSet(tbl) : <<x.path_id, x.day>> \notin keys
                                               \/ x.site_id # siteID} |-> tbl[r]]
    IN  {kept (+) SetToBag({HitStatRow(siteID, k[1], k[2],
                                [h \in 1..24 |-> f[k].stats[h] + DayCounts(hits, k, FALSE)[h]],
                                [h \in 1..24 |-> f[k].stats_unique[h] + DayCounts(hits, k, TRUE)[h]])
                            : k \in keys})
         : f \in picks}

(***************************************************************************)
(* Query engine: HitStats.List and HitStat.Totals.  Both read the tables   *)
(* of one site; a call ends in a result, in a panic of applyOffset, or     *)
(* never (done is FALSE) when a loop of fillBlankDays does not break.      *)
(***************************************************************************)
MaxOf(S) == CHOOSE m \in S : \A x \in S : x <= m

\* The orders of 1..n.
Perms(n) == {p \in [1..n -> 1..n] : \A i, j \in 1..n : p[i] = p[j] => i = j}

\* The loops of addTotals over one HitStat.
addTotalsOne(h, daily) ==
    LET stats == [j \in DOMAIN h.Stats |->
                    [h.Stats[j] EXCEPT !.Daily = @ + SumSeq(h.Stats[j].Hourly),
                                       !.DailyUnique = @ + SumSeq(h.Stats[j].HourlyUnique)]]
        seen == IF daily THEN {stats[j].Daily : j \in DOMAIN stats}
                ELSE UNION {{stats[j].Hourly[k] : k \in DOMAIN stats[j].Hourly} : j \in DOMAIN stats}
    IN  [h EXCEPT !.Stats = stats,
                  !.Count = @ + SumSeq([j \in DOMAIN stats |-> stats[j].Daily]),
                  !.CountUnique = @ + SumSeq([j \in DOMAIN stats |-> stats[j].DailyUnique]),
                  !.Max = MaxOf({@} \cup seen)]

\* addTotals as it would be without the sort.Slice at its end.
addTotalsUnsorted(hh, daily) ==
    LET done == [i \in DOMAIN hh |-> addTotalsOne(hh[i], daily)]
    IN  {[hh |-> done,
          totalDisplay |-> SumSeq([i \in DOMAIN done |-> done[i].Count]),
          totalUniqueDisplay |-> SumSeq([i \in DOMAIN done |-> done[i].CountUnique])]}

\* addTotals(hh, daily, &totalDisplay, &totalUniqueDisplay): sort.Slice is
\* not stable, so every order with CountUnique descending is a result.
addTotals(hh, daily) ==
    LET done == [i \in DOMAIN hh |-> addTotalsOne(hh[i], daily)]
    IN  {[hh |-> [i \in DOMAIN done |-> done[p[i]]],
          totalDisplay |-> SumSeq([i \in DOMAIN done |-> done[i].Count]),
          totalUniqueDisplay |-> SumSeq([i \in DOMAIN done |-> done[i].CountUnique])]
         : p \in {q \in Perms(Len(done)) :
                    \A i, j \in DOMAIN done : i < j => done[q[i]].CountUnique >= done[q[j]].CountUnique}}

\* The limit of List as it would be without the one row more.
ListLimitNoExtra(page) == IF page # 0 THEN page ELSE 10

\* zint.NonZero(site.Settings.Limits.Page, 10) + 1
ListLimit(page) == (IF page # 0 THEN page ELSE 10) + 1

\* The first query of List: the paths with a hit_counts row of the site whose
\* hour is in [start, end], by sum(total_unique) desc, path_id desc, at most
\* limit of them.
ListPaths(counts, siteID, start, end, limit) ==
    LET rows == {r \in BagToSet(counts) : r.site_id = siteID /\ r.hour >= start /\ r.hour <= end}
        paths == {r.path_id : r \in rows}
        uniq == [p \in paths |->
                    SumOver([r \in rows |-> counts[r] * r.total_unique], {r \in rows : r.path_id = p})]
        before(p, q) == uniq[p] > uniq[q] \/ (uniq[p] = uniq[q] /\ p > q)
        n == Cardinality(paths)
        all == CHOOSE s \in [1..n -> paths] : \A i, j \in 1..n : i < j => before(s[i], s[j])
    IN  SubSeq(all, 1, IF n < limit THEN n ELSE limit)

\* The second query of List and the loop that attaches its rows: the Stats of
\* path, by day ascending.  A table filled by updateHitStats has one row per
\* (site, path, day), so the order is determined.
ListStats(stats, siteID, path, start, end) ==
    LET rows == {r \in BagToSet(stats) :
                    /\ r.site_id = siteID
                    /\ r.path_id = path
                    /\ ParseDay(r.day) >= ParseDay(FormatDate(start))
                    /\ ParseDay(r.day) <= ParseDay(FormatDate(end))}
        n == Cardinality(rows)
        byDay == CHOOSE s \in [1..n -> rows] :
                    \A i, j \in 1..n : i < j => ParseDay(s[i].day) < ParseDay(s[j].day)
    IN  [j \in 1..n |-> Stat(byDay[j].day, byDay[j].stats, byDay[j].stats_unique)]

\* HitStats.List(ctx, start, end, "", nil, daily) for the site with settings
\* set: the outcomes [done, panic, hh, more, totalDisplay, totalUniqueDisplay].
List(counts, stats, siteID, set, start, end, daily) ==
    LET limit == ListLimit(set.Page)
        got == ListPaths(counts, siteID, start, end, limit)
        more == Len(got) = limit
        h == IF more THEN SubSeq(got, 1, Len(got) - 1) ELSE got
        hh == [i \in DOMAIN h |-> HitStat(h[i], ListStats(stats, siteID, h[i], start, end))]
        filled == fillBlankDays(hh, start, end)
        shifted == applyOffset(filled.hh, set.Offset)
        none == [done |-> FALSE, panic |-> FALSE, hh |-> <<>>, more |-> more,
                 totalDisplay |-> 0, totalUniqueDisplay |-> 0]
    IN  IF ~filled.done THEN {none}
        ELSE IF shifted.panic THEN {[none EXCEPT !.done = TRUE, !.panic = TRUE]}
        ELSE {[done |-> TRUE, panic |-> FALSE, hh |-> t.hh, more |-> more,
               totalDisplay |-> t.totalDisplay, totalUniqueDisplay |-> t.totalUniqueDisplay]
              : t \in addTotals(shifted.hh, daily)}

\* The end of Totals as it would be without the floor.
MaxFloorNone(max) == max

\* if max < 10 { max = 10 }
MaxFloor(max) == IF max < 10 THEN 10 ELSE max

\* The query of Totals as it would be with hour<:end.
TotalsRowsOpenEnd(counts, siteID, start, end) ==
    {r \in BagToSet(counts) : r.site_id = siteID /\ r.hour >= start /\ r.hour < end}

\* The query of Totals: the hit_counts rows of the site with hour>=:start
\* and hour<=:end.
TotalsRows(counts, siteID, start, end) ==
    {r \in BagToSet(counts) : r.site_id = siteID /\ r.hour >= start /\ r.hour <= end}

\* The loops of Totals over the rows tc: the Stat of day d.
TotalsStat(counts, rows, d) ==
    LET of(h, uniqueOnly) ==
            SumOver([r \in rows |-> counts[r] * (IF uniqueOnly THEN r.total_unique ELSE r.total)],
                    {r \in rows : FormatDate(r.hour) = d /\ HourOf(r.hour) = h - 1})
    IN  Stat(d, [h \in 1..24 |-> of(h, FALSE)], [h \in 1..24 |-> of(h, TRUE)])

\* HitStat.Totals(ctx, start, end, "", daily) for the site with settings set:
\* [done, panic, h, max].
Totals(counts, siteID, set, start, end, daily) ==
    LET rows == TotalsRows(counts, siteID, start, end)
        days == {ParseDay(FormatDate(r.hour)) : r \in rows}
        n == Cardinality(days)
        sorted == CHOOSE s \in [1..n -> days] : \A i, j \in 1..n : i < j => s[i] < s[j]
        sts == [j \in 1..n |-> TotalsStat(counts, rows, FormatDay(sorted[j]))]
        totalst == [HitStat(0, sts) EXCEPT
                        !.Count = SumOver([r \in rows |-> counts[r] * r.total], rows),
                        !.CountUnique = SumOver([r \in rows |-> counts[r] * r.total_unique], rows)]
        max0 == IF daily THEN 0
                ELSE MaxOf({0} \cup UNION {{sts[j].Hourly[k] : k \in 1..24} : j \in 1..n})
        filled == fillBlankDays(<<totalst>>, start, end)
        shifted == applyOffset(filled.hh, set.Offset)
        h0 == shifted.hh[1]
        dailies == [j \in DOMAIN h0.Stats |->
                      [h0.Stats[j] EXCEPT !.Daily = @ + SumSeq(h0.Stats[j].Hourly),
                                          !.DailyUnique = @ + SumSeq(h0.Stats[j].HourlyUnique)]]
        h1 == IF daily THEN [h0 EXCEPT !.Stats = dailies] ELSE h0
        max1 == IF daily THEN MaxOf({max0} \cup {dailies[j].Daily : j \in DOMAIN dailies}) ELSE max0
        none == [done |-> FALSE, panic |-> FALSE, h |-> totalst, max |-> 0]
    IN  IF ~filled.done THEN none
        ELSE IF shifted.panic THEN [none EXCEPT !.done = TRUE, !.panic = TRUE]
        ELSE [done |-> TRUE, panic |-> FALSE, h |-> h1, max |-> MaxFloor(max1)]

(***************************************************************************)
(* Retention.  Site.DeleteOlderThan (its source is not at hand) deletes    *)
(* the raw hits of the site created before now - days and takes them out   *)
(* of the rollups the query engine reads; a row that counts nothing any    *)
(* more is deleted.  A day is 48 half hours.                               *)
(***************************************************************************)
\* The hits of the site created before now - days, as a bag.
OlderThan(raw, siteID, days, now) ==
    [x \in {y \in BagToSet(raw) : y.Site = siteID /\ y.CreatedAt < now - 48 * days} |-> raw[x]]

\* The number of hits of the bag gone that a hit_counts row counts.
LostOfHour(gone, r, uniqueOnly) ==
    SumOver(gone, {x \in DOMAIN gone : /\ x.Bot = 0
                                       /\ x.PathID = r.path_id
                                       /\ HourBucket(x.CreatedAt) = r.hour
                                       /\ (uniqueOnly => x.FirstVisit)})

\* The hour array of the hits of the bag gone that a hit_stats row counts.
LostOfDay(gone, r, uniqueOnly) ==
    [h \in 1..24 |->
        SumOver(gone, {x \in DOMAIN gone : /\ x.Bot = 0
                                           /\ x.PathID = r.path_id
                                           /\ FormatDate(x.CreatedAt) = r.day
                                           /\ HourOf(x.CreatedAt) = h - 1
                                           /\ (uniqueOnly => x.FirstVisit)})]

\* DeleteOlderThan that deletes the raw hits and leaves the rollups alone.
DeleteOlderThanHitsOnly(raw, counts, stats, siteID, days, now) ==
    [raw |-> raw (-) OlderThan(raw, siteID, days, now), counts |-> counts, stats |-> stats]

\* site.DeleteOlderThan(ctx, days) at the time now: the tables after it.
DeleteOlderThan(raw, counts, stats, siteID, days, now) ==
    LET gone == OlderThan(raw, siteID, days, now)
        mine(tbl) == {r \in BagToSet(tbl) : r.site_id = siteID}
        others(tbl) == [r \in BagToSet(tbl) \ mine(tbl) |-> tbl[r]]
        lessCounts == {[r EXCEPT !.total = @ - LostOfHour(gone, r, FALSE),
                                 !.total_unique = @ - LostOfHour(gone, r, TRUE)] : r \in mine(counts)}
        lessStats == {[r EXCEPT !.stats = [h \in 1..24 |-> @[h] - LostOfDay(gone, r, FALSE)[h]],
                                !.stats_unique = [h \in 1..24 |-> @[h] - LostOfDay(gone, r, TRUE)[h]]]
                      : r \in mine(stats)}
    IN  [raw |-> raw (-) gone,
         counts |-> others(counts) (+) SetToBag({r \in lessCounts : r.total > 0}),
         stats |-> others(stats) (+) SetToBag({r \in lessStats : r.stats # allDays})]

\* The loop of DataRetention over the sites from s on, in the order of the
\* listing; failing are the sites whose DeleteOlderThan returns an error
\* (logged, nothing deleted).  calls lists the calls made: [site, days, err].
RECURSIVE RetentionLoopStop(_, _, _, _, _, _, _, _)
RetentionLoopStop(s, set, raw, counts, stats, now, failing, calls) ==
    IF s \notin DOMAIN set THEN [err |-> FALSE, raw |-> raw, counts |-> counts, stats |-> stats, calls |-> calls]
    ELSE IF set[s].DataRetention <= 0
    THEN RetentionLoopStop(s + 1, set, raw, counts, stats, now, failing, calls)
    ELSE IF s \in failing
    THEN [err |-> TRUE, raw |-> raw, counts |-> counts, stats |-> stats,
          calls |-> Append(calls, [site |-> s, days |-> set[s].DataRetention, err |-> TRUE])]
    ELSE LET d == DeleteOlderThan(raw, counts, stats, s, set[s].DataRetention, now)
         IN  RetentionLoopStop(s + 1, set, d.raw, d.counts, d.stats, now, failing,
                               Append(calls, [site |-> s, days |-> set[s].DataRetention, err |-> FALSE]))

RECURSIVE RetentionLoop(_, _, _, _, _, _, _, _)
RetentionLoop(s, set, raw, counts, stats, now, failing, calls) ==
    IF s \notin DOMAIN set THEN [err |-> FALSE, raw |-> raw, counts |-> counts, stats |-> stats, calls |-> calls]
    ELSE IF set[s].DataRetention <= 0
    THEN RetentionLoop(s + 1, set, raw, counts, stats, now, failing, calls)
    ELSE IF s \in failing
    THEN RetentionLoop(s + 1, set, raw, counts, stats, now, failing,
                       Append(calls, [site |-> s, days |-> set[s].DataRetention, err |-> TRUE]))
    ELSE LET d == DeleteOlderThan(raw, counts, stats, s, set[s].DataRetention, now)
         IN  RetentionLoop(s + 1, set, d.raw, d.counts, d.stats, now, failing,
                           Append(calls, [site |-> s, days |-> set[s].DataRetention, err |-> FALSE]))

\* DataRetention(ctx) at the time now: [err, raw, counts, stats, calls].
\* listFails: sites.UnscopedList returns an error.
DataRetention(set, raw, counts, stats, now, listFails, failing) ==
    IF listFails THEN [err |-> TRUE, raw |-> raw, counts |-> counts, stats |-> stats, calls |-> <<>>]
    ELSE RetentionLoop(1, set, raw, counts, stats, now, failing, <<>>)

(***************************************************************************)
(* Paths.  A path is a sequence of characters.  Hit.Defaults cleans the    *)
(* path of the hit and resolves it with Path.GetOrInsert, which selects    *)
(* and, when there is no row, inserts, outside any transaction; on a row   *)
(* it found it calls updateTitle, whose cache operations are each atomic.  *)
(* The paths modelled hold no "?" and neither of the prefixes cleanPath    *)
(* rewrites, so that cleanPath returns where it finds no query parameters. *)
(***************************************************************************)
\* The concurrent callers.
PathProcs == {1, 2}

\* strings.ToLower / lower() of one character and of a path.
LowerChar(c) == IF c = "A" THEN "a" ELSE c

Lower(s) == [i \in DOMAIN s |-> LowerChar(s[i])]

\* strings.TrimLeft(s, c), strings.TrimRight(s, c), strings.Trim(s, c) for
\* one character c.
RECURSIVE TrimLeft(_, _)
TrimLeft(s, c) == IF Len(s) > 0 /\ s[1] = c THEN TrimLeft(Tail(s), c) ELSE s

RECURSIVE TrimRight(_, _)
TrimRight(s, c) == IF Len(s) > 0 /\ s[Len(s)] = c THEN TrimRight(SubSeq(s, 1, Len(s) - 1), c) ELSE s

Trim(s, c) == TrimRight(TrimLeft(s, c), c)

\* strings.TrimSpace(s)
TrimSpace(s) == Trim(s, " ")

\* cleanPath without the trim of the slashes at the end.
cleanPathLeftOnly(path, event) ==
    LET p == TrimSpace(path)
    IN  IF event THEN TrimLeft(p, "/")
        ELSE IF p = <<>> THEN p
        ELSE <<"/">> \o TrimLeft(p, "/")

\* Hit.cleanPath for a hit with the path and the event flag: the new h.Path.
cleanPath(path, event) ==
    LET p == TrimSpace(path)
    IN  IF event THEN TrimLeft(p, "/")
        ELSE IF p = <<>> THEN p
        ELSE <<"/">> \o Trim(p, "/")

\* Path.Validate: v.Len("path", p.Path, 1, 2048).
PathValid(path) == Len(path) >= 1 /\ Len(path) <= 2048

PathRow(id, site, path, title, event) ==
    [ID |-> id, Site |-> site, Path |-> path, Title |-> title, Event |-> event]

\* where site_id=$1 and lower(path)=lower($2)
PathMatches(r, site, path) == r.Site = site /\ Lower(r.Path) = Lower(path)

\* select * from paths where ... limit 1: without an order by any of the
\* matching rows.
PathSelect(tbl, site, path) == {tbl[i] : i \in {j \in DOMAIN tbl : PathMatches(tbl[j], site, path)}}

\* A caller that is not in a call.
IdlePath ==
    [pc |-> "idle", site |-> 0, raw |-> <<>>, path |-> <<>>, title |-> "", event |-> FALSE,
     id |-> 0, titles |-> <<>>]

\* strconv.FormatInt(p.ID, 10)
TitleKey(id) == FormatInt(id)

\* The occurrences of t in titles: grouped[t].
Grouped(titles, t) == Cardinality({i \in DOMAIN titles : titles[i] = t})

\* The loop over grouped as it would be with n >= 10.
FrequentFromTen(titles) == {titles[i] : i \in {j \in DOMAIN titles : Grouped(titles, titles[j]) >= 10}}

\* The titles for which the loop over grouped finds n > 10.
Frequent(titles) == {titles[i] : i \in {j \in DOMAIN titles : Grouped(titles, titles[j]) > 10}}

(***************************************************************************)
(* Import.  A line of the CSV file is what csv.Reader makes of it: whether *)
(* it could be read, the number of its fields, and the fields that         *)
(* ExportRow.Hit validates.  A date is the number of half hours it stands  *)
(* for; BadDate is a text that is no RFC 3339 date.                        *)
(***************************************************************************)
\* values.NumField()-offset: the fields of ExportRow without ID and SiteID.
NumFields == 14

BadDate == 0 - 1

Line(csv, nfields, path, event, bot, first, created, refs, size, session) ==
    [csv |-> csv, nfields |-> nfields, Path |-> path, Event |-> event, Bot |-> bot,
     FirstVisit |-> first, CreatedAt |-> created, RefScheme |-> refs, Size |-> size,
     Session |-> session]

\* v.Boolean, v.Integer, v.Date, v.Include: whether the text passes, and the
\* value it parses to (the zero value when it does not pass).
IsBoolean(s) == s \in {"true", "false"}

ParseBoolean(s) == s = "true"

IsInteger(s) == s \in {"0", "1"}

ParseInteger(s) == IF s = "1" THEN 1 ELSE 0

IsDate(d) == d # BadDate

ParseDate(d) == IF IsDate(d) THEN d ELSE 0

RefSchemes == {"h", "o", "g", "c"}

\* hit.Size.UnmarshalText: the sizes that parse.
SizeParses(s) == s # "x"

\* ExportRow.Read: the error for a line with the wrong number of fields.
ExportRowRead(line) == [err |-> line.nfields # NumFields]

\* The errors the validator of ExportRow.Hit collects.
HitInvalid(row) ==
    \/ row.Path = ""
    \/ ~IsBoolean(row.Event)
    \/ ~IsInteger(row.Bot)
    \/ ~IsBoolean(row.FirstVisit)
    \/ ~IsDate(row.CreatedAt)
    \/ (row.RefScheme # "" /\ row.RefScheme \notin RefSchemes)

\* ExportRow.Hit: [hit, err].  For a row with a size the error is that of
\* UnmarshalText alone.
ExportRowHit(row, siteID) ==
    [hit |-> [Site |-> siteID, Path |-> row.Path, Event |-> ParseBoolean(row.Event),
              Bot |-> ParseInteger(row.Bot), FirstVisit |-> ParseBoolean(row.FirstVisit),
              CreatedAt |-> ParseDate(row.CreatedAt), RefScheme |-> row.RefScheme,
              Size |-> IF SizeParses(row.Size) THEN row.Size ELSE "", Session |-> [hi |-> 0, lo |-> 0]],
     err |-> IF row.Size # "" THEN ~SizeParses(row.Size) ELSE HitInvalid(row)]

\* The loop of Import from line i on.  st is [buf, sessions, salt, counter,
\* issued, n, errs]: the Memstore buffer, the map of the sessions seen, the
\* Memstore's salt and counter, the identifiers taken, the rows imported and
\* the errors appended to the group.
RECURSIVE ImportLoop(_, _, _, _)
ImportLoop(lines, i, siteID, st) ==
    IF i > Len(lines) THEN st
    ELSE LET line == lines[i]
             skip == [st EXCEPT !.errs = st.errs + 1]
             r == ExportRowHit(line, siteID)
             known == line.Session \in DOMAIN st.sessions
             id == MemstoreSessionID(st.salt, st.counter)
             s == IF known THEN st.sessions[line.Session] ELSE id
         IN  IF ~line.csv THEN ImportLoop(lines, i + 1, siteID, skip)
             ELSE IF ExportRowRead(line).err THEN ImportLoop(lines, i + 1, siteID, skip)
             ELSE IF r.err THEN ImportLoop(lines, i + 1, siteID, skip)
             ELSE ImportLoop(lines, i + 1, siteID,
                    [st EXCEPT !.buf = MemstoreAppend(st.buf, [r.hit EXCEPT !.Session = s]),
                               !.sessions = IF known THEN st.sessions
                                            ELSE (line.Session :> id) @@ st.sessions,
                               !.counter = IF known THEN st.counter ELSE id.lo,
                               !.issued = IF known THEN st.issued ELSE Append(st.issued, id),
                               !.n = st.n + 1])

\* Import without replace: [started, panic, buf, counter, issued, n, errs].
\* header is "ok", "unreadable", "version" (another version in its first
\* field) or "nofirst" (a first field that is empty); for the second and
\* third Import reports the error and returns before the loop, for the last
\* the header[0][:1] of the report is out of range.
Import(buf, salt, counter, siteID, header, lines) ==
    LET st0 == [buf |-> buf, sessions |-> <<>>, salt |-> salt, counter |-> counter,
                issued |-> <<>>, n |-> 0, errs |-> 0]
        st == IF header = "ok" THEN ImportLoop(lines, 1, siteID, st0) ELSE st0
    IN  [started |-> header = "ok", panic |-> header = "nofirst", buf |-> st.buf,
         counter |-> st.counter, issued |-> st.issued, n |-> st.n, errs |-> st.errs]

\* site.DeleteAll(ctx), whose source is not at hand: the tables without the
\* hits and the rollup rows of the site.
SiteDeleteAll(raw, counts, stats, siteID) ==
    [raw |-> [x \in {y \in BagToSet(raw) : y.Site # siteID} |-> raw[x]],
     counts |-> [r \in {y \in BagToSet(counts) : y.site_id # siteID} |-> counts[r]],
     stats |-> [r \in {y \in BagToSet(stats) : y.site_id # siteID} |-> stats[r]]]

\* Import with replace as it would be with the delete before the header.
ImportReplaceDeleteFirst(raw, counts, stats, buf, salt, counter, siteID, header, lines, deleteFails) ==
    LET kept == [raw |-> raw, counts |-> counts, stats |-> stats]
        r == Import(buf, salt, counter, siteID, IF deleteFails THEN "unreadable" ELSE header, lines)
    IN  [tbls |-> IF deleteFails THEN kept ELSE SiteDeleteAll(raw, counts, stats, siteID),
         deleted |-> ~deleteFails, imp |-> r]

\* Import with replace: [tbls, deleted, imp].  The site's data is deleted
\* after the header passed; when the delete fails Import reports the error
\* and returns before the loop.
ImportReplace(raw, counts, stats, buf, salt, counter, siteID, header, lines, deleteFails) ==
    LET kept == [raw |-> raw, counts |-> counts, stats |-> stats]
        deletes == header = "ok" /\ ~deleteFails
        r == Import(buf, salt, counter, siteID,
                    IF header = "ok" /\ deleteFails THEN "unreadable" ELSE header, lines)
    IN  [tbls |-> IF deletes THEN SiteDeleteAll(raw, counts, stats, siteID) ELSE kept,
         deleted |-> deletes, imp |-> r]

NoImport == [op |-> "none"]

(***************************************************************************)
(* Export.  The hits of the site in hits_export have the IDs 1..n.  The    *)
(* creation of an export inserts its exports row and its file and starts   *)
(* Export.Run in a goroutine of its own; the loop of Run fetches one page  *)
(* and writes it to the file per turn.  Every statement on the database    *)
(* takes the context of the run and fails once that context is cancelled.  *)
(***************************************************************************)
\* A last_hit_id that is null.
NoHitID == 0 - 1

\* The file of an export after os.Remove.
Removed == <<NoHitID>>

ExportRowOf(id, startFrom) ==
    [ID |-> id, StartFromHitID |-> startFrom, LastHitID |-> NoHitID, NumRows |-> NoHitID,
     Finished |-> FALSE, Error |-> FALSE]

\* ExportRows.Export as it would be with hit_id > $2 + 1: the hit that
\* follows the cursor is left out.
ExportRowsExportSkip(n, limit, paginate, fails) ==
    LET from == paginate + 1
        to == IF from + limit < n THEN from + limit ELSE n
        hits == IF fails \/ to <= from THEN <<>> ELSE [i \in 1..(to - from) |-> from + i]
    IN  [hits |-> hits, last |-> IF Len(hits) > 0 THEN hits[Len(hits)] ELSE paginate, err |-> fails]

\* ExportRows.Export(ctx, limit, paginate): [hits, last, err].  The hits are
\* those after paginate by ID, at most limit of them; last is the ID of the
\* last of them, and paginate when there is none.
ExportRowsExport(n, limit, paginate, fails) ==
    LET to == IF paginate + limit < n THEN paginate + limit ELSE n
        hits == IF fails \/ to <= paginate THEN <<>> ELSE [i \in 1..(to - paginate) |-> paginate + i]
    IN  [hits |-> hits, last |-> IF Len(hits) > 0 THEN hits[Len(hits)] ELSE paginate, err |-> fails]

\* No export is running.
IdleExport == [pc |-> "idle", id |-> 0, last |-> 0, numRows |-> 0, cancelled |-> FALSE]

\* The history of one run: the rows it wrote, whether its context was
\* cancelled inside the loop and how many rows it had written by then,
\* whether it returned.
RunHistory ==
    [rows |-> <<>>, midLoop |-> FALSE, atCancel |-> 0, done |-> FALSE, failed |-> FALSE,
     updateFailed |-> FALSE]

\* The error path of Export.Run as it would be without the os.Remove.
ExportFailedKeepsFile(row, file, noUpdate) ==
    [row |-> IF noUpdate THEN row ELSE [row EXCEPT !.Error = TRUE], file |-> file]

\* The error path of Export.Run: [row, file].  The error is written to the
\* exports row, unless that update fails (noUpdate), and the file is removed.
ExportFailed(row, file, noUpdate) ==
    [row |-> IF noUpdate THEN row ELSE [row EXCEPT !.Error = TRUE], file |-> Removed]

(***************************************************************************)
(* State machine                                                           *)
(***************************************************************************)
NoCall ==
    [op |-> "none", site |-> 0, hits |-> <<>>, names |-> <<>>, isReindex |-> FALSE,
     err |-> FALSE, before |-> <<>>, sitesBefore |-> <<>>, storedBefore |-> <<>>,
     calls |-> <<>>, fail |-> "none", persistErr |-> FALSE, now |-> 0, lastBefore |-> 0]

\* Sites 1 and 2 are active and have received no data; site 3 is soft-deleted.
Init ==
    /\ tables = [t \in TableNames |-> EmptyBag]
    /\ sites = [s \in {1, 2, 3} |->
                  [ID |-> s, State |-> IF s = 3 THEN "d" ELSE StateActive, ReceivedData |-> FALSE]]
    /\ hitsTable = <<>>
    /\ LastMemstore = 0
    /\ memHits = <<>>
    /\ appended = <<>>
    /\ drained = <<>>
    /\ aggHits = <<>>
    /\ reindexed = FALSE
    /\ lastCall = NoCall
    /\ nHits = 0
    /\ sessionSalt = 1
    /\ sessionID = 0
    /\ epoch = 0
    /\ issued = <<>>
    /\ settings = [s \in {1, 2, 3} |-> DefaultSettings(s)]
    /\ rawHits = EmptyBag
    /\ hitCounts = EmptyBag
    /\ hitStats = EmptyBag
    /\ lastQuery = NoQuery
    /\ lastRetention = NoRetention
    /\ pathsTable = <<>>
    /\ changedTitles = <<>>
    /\ pathProc = [p \in PathProcs |-> IdlePath]
    /\ pathResults = {}
    /\ titleSeen = <<>>
    /\ nPathCalls = 0
    /\ lastImport = NoImport
    /\ exportHits = 0
    /\ exportsTable = <<>>
    /\ exportFiles = <<>>
    /\ exportProc = IdleExport
    /\ exportWritten = <<>>

\* A producer calls Memstore.Append(h).
DoAppend(h) ==
    /\ nHits < MaxHits
    /\ memHits' = MemstoreAppend(memHits, h)
    /\ appended' = Append(appended, h)
    /\ nHits' = nHits + 1
    /\ lastCall' = [NoCall EXCEPT !.op = "Append", !.hits = <<h>>]
    /\ UNCHANGED <<LastMemstore, pathVars, portVars, queryVars, dbVars, drained, sessVars, aggHits, reindexed>>

\* The times goatcounter.Now() can return in a call made when LastMemstore
\* holds last: the clock has advanced since the call that stored it.
Nows(last) == (last + 1)..MaxClock

\* The periodic task calls PersistAndStat at time now.
DoPersistAndStat(now, persistFails, failOf) ==
    \E r \in PersistAndStat(tables, sites, memHits, hitsTable, LastMemstore, now, persistFails, failOf) :
        /\ tables' = r.tables
        /\ sites' = r.sites
        /\ memHits' = r.buf
        /\ hitsTable' = r.stored
        /\ drained' = drained \o r.hits
        /\ LastMemstore' = r.last
        /\ lastCall' = [NoCall EXCEPT !.op = "PersistAndStat", !.hits = r.hits, !.err = r.err,
                                      !.persistErr = r.persistErr, !.now = now,
                                      !.lastBefore = LastMemstore,
                                      !.before = tables, !.sitesBefore = sites,
                                      !.storedBefore = hitsTable, !.calls = r.calls]
        /\ UNCHANGED <<pathVars, portVars, queryVars, appended, sessVars, aggHits, reindexed, nHits>>

\* The reindex command calls ReindexStats with a site record read from the
\* sites table and hits of that site.
DoReindexStats(s, hits, names, fail) ==
    /\ nHits + Len(hits) <= MaxHits
    /\ \E r \in ReindexStats(tables, sites, sites[s], hits, names, fail) :
        /\ tables' = r.tables
        /\ sites' = r.sites
        /\ lastCall' = [NoCall EXCEPT !.op = "ReindexStats", !.site = s, !.hits = hits,
                                      !.names = names, !.isReindex = TRUE, !.err = r.err,
                                      !.before = tables, !.sitesBefore = sites]
    /\ nHits' = nHits + Len(hits)
    /\ UNCHANGED <<LastMemstore, pathVars, portVars, queryVars, hitsTable, memVars, sessVars, aggHits, reindexed>>

\* The table lists the reindex command is run with.
ReindexNames ==
    {<<"all">>, <<"location_stats">>, <<"hit_stats", "location_stats">>,
     <<"all", "location_stats">>, <<"bogus">>}

\* The hits the reindex command selects for site s.
HitsOfSite(s) == IF s = 3 THEN {Hit(s, 1, "", 31, 0, TRUE)} ELSE {h \in CronHits : h.Site = s}

\* A direct call of Memstore.Persist.
DoPersist(persistFails) ==
    LET p == MemstorePersist(memHits, hitsTable, persistFails)
    IN  /\ memHits' = p.buf
        /\ hitsTable' = p.stored
        /\ drained' = drained \o p.hits
        /\ lastCall' = [NoCall EXCEPT !.op = "Persist", !.hits = p.hits, !.err = p.err,
                                      !.storedBefore = hitsTable]
        /\ UNCHANGED <<LastMemstore, pathVars, portVars, queryVars, tables, sites, appended, sessVars, aggHits, reindexed, nHits>>

\* A direct call of updateLocationStats for the site of the context.
DoUpdateLocationStats(hits, isReindex, fail) ==
    /\ nHits + Len(hits) <= MaxLocHits
    /\ \E r \in updateLocationStats(tables["location_stats"], TheSite, hits, isReindex, fail) :
        /\ tables' = [tables EXCEPT !["location_stats"] = r.tbl]
        /\ aggHits' = IF r.err THEN aggHits ELSE aggHits \o hits
        /\ reindexed' = (reindexed \/ (isReindex /\ ~r.err))
        /\ lastCall' = [NoCall EXCEPT !.op = "updateLocationStats", !.site = TheSite,
                                      !.hits = hits, !.isReindex = isReindex, !.err = r.err,
                                      !.before = tables, !.sitesBefore = sites, !.fail = fail]
    /\ nHits' = nHits + Len(hits)
    /\ UNCHANGED <<LastMemstore, pathVars, portVars, queryVars, sites, hitsTable, memVars, sessVars>>

\* A caller takes a session identifier.
DoSessionID ==
    /\ Len(issued) < MaxSessionIDs
    /\ LET id == MemstoreSessionID(sessionSalt, sessionID)
       IN  /\ sessionID' = id.lo
           /\ issued' = Append(issued, [hi |-> id.hi, lo |-> id.lo, epoch |-> epoch])
    /\ UNCHANGED <<LastMemstore, pathVars, portVars, queryVars, dbVars, memVars, sessionSalt, epoch, aggHits, reindexed, lastCall, nHits>>

\* The periodic sessions task: EvictSessions, then RefreshSalt.  Whether the
\* counter starts anew with the salt is left open.
DoSessions ==
    /\ epoch < MaxRefresh
    /\ sessionSalt' \in MemstoreRefreshSalt(sessionSalt)
    /\ sessionID' \in {0, sessionID}
    /\ epoch' = epoch + 1
    /\ UNCHANGED <<LastMemstore, pathVars, portVars, queryVars, dbVars, memVars, issued, aggHits, reindexed, lastCall, nHits>>

\* The failures tried per site in one PersistAndStat: any place of UpdateStats
\* for one site, or the same place for all of them.
StatFails(S) ==
    {f \in [S -> {g \in Fails : g.stmt = "begin"}] :
        \A s, t \in S : (f[s].at # 0 /\ f[t].at # 0) => f[s] = f[t]}

\* The failures tried in a ReindexStats call: in any table name of the list,
\* in the first aggregator, in location_stats or in UpdateReceivedData.
SomeReindexFails(names) == {f \in ReindexFails(names) : f.at \in {0, 1, 6, 8} /\ f.stmt = "begin"}

Next ==
    \/ \E h \in CronHits : DoAppend(h)
    \/ \E now \in Nows(LastMemstore), persistFails \in BOOLEAN,
          failOf \in StatFails(GroupedSites(memHits)) :
          DoPersistAndStat(now, persistFails, failOf)
    \/ \E s \in DOMAIN sites :
          \E hits \in SeqsUpTo(HitsOfSite(s), 1), fail \in {f \in SomeReindexFails(<<"all">>) : f.at # 1} :
                DoReindexStats(s, hits, <<"all">>, fail)

Spec == Init /\ [][Next]_vars

\* Producers and direct Persist calls.
NextMem ==
    \/ \E h \in CronHits : DoAppend(h)
    \/ \E persistFails \in BOOLEAN : DoPersist(persistFails)

SpecMem == Init /\ [][NextMem]_vars

\* Direct calls of the location_stats aggregator.
NextLoc ==
    \E hits \in SeqsUpTo(LocHits, MaxLocHits - nHits), isReindex \in BOOLEAN :
        \E fail \in {"none", "begin", "select", "delete", "insert"} :
            DoUpdateLocationStats(hits, isReindex, fail)

SpecLoc == Init /\ [][NextLoc]_vars

\* Session identifiers.
NextSession ==
    \/ DoSessionID
    \/ DoSessions

SpecSession == Init /\ [][NextSession]_vars

\* The reindex command alone, with every table list.
NextReindex ==
    \E s \in DOMAIN sites, names \in ReindexNames :
        \E hits \in SeqsUpTo(HitsOfSite(s), MaxHits - nHits), fail \in SomeReindexFails(names) :
            DoReindexStats(s, hits, names, fail)

SpecReindex == Init /\ [][NextReindex]_vars

(***************************************************************************)
(* fillBlankDays and applyOffset called on their own                       *)
(***************************************************************************)
\* An hour array that tells the day d and the hour apart: 100 * d + hour at
\* each hour, plus base.
HoursOfDay(d, base) == [h \in 1..24 |-> base + 100 * d + h - 1]

\* The fetched Stat of day d of the month.
FetchedStat(d) == Stat(FormatDay(d), HoursOfDay(d, 0), HoursOfDay(d, 5000))

\* The Stats of the days of the set ds, ascending.
RECURSIVE StatsOfDays(_)
StatsOfDays(ds) ==
    IF ds = {} THEN <<>>
    ELSE LET d == CHOOSE x \in ds : \A y \in ds : x <= y
         IN  <<FetchedStat(d)>> \o StatsOfDays(ds \ {d})

\* The times of day tried: 00:00, 14:30 and 23:30 of each day.
FillTimes == {48 * d + t : d \in 0..(MaxFillDays - 1), t \in {0, 29, 47}}

\* The HitStats given to fillBlankDays: none, one with the Stats of any set of
\* days (sorted), one with unsorted Stats, and two HitStats.
FillInputs ==
    {<<>>}
      \cup {<<HitStat(1, StatsOfDays(ds))>> : ds \in SUBSET (1..MaxFillDays)}
      \cup {<<HitStat(1, <<FetchedStat(2), FetchedStat(1)>>)>>,
            <<HitStat(2, StatsOfDays({1})), HitStat(1, StatsOfDays({2}))>>}

\* One call of fillBlankDays; the calls do not depend on one another, so a
\* behaviour makes one.
DoFillBlankDays(hh, start, end) ==
    /\ lastQuery = NoQuery
    /\ lastQuery' = [op |-> "fillBlankDays", hh |-> hh, start |-> start, end |-> end,
                     out |-> fillBlankDays(hh, start, end)]
    /\ UNCHANGED <<LastMemstore, pathVars, portVars, dbVars, memVars, sessVars, aggHits, reindexed, lastCall, nHits,
                   settings, rawHits, hitCounts, hitStats, lastRetention>>

NextFill == \E hh \in FillInputs, start \in FillTimes, end \in FillTimes : DoFillBlankDays(hh, start, end)

SpecFill == Init /\ [][NextFill]_vars

\* The offsets in minutes tried: the whole hours from -12 to +14 and offsets
\* that are not whole hours.
OffsetMinutes ==
    {60 * h : h \in -12..14} \cup {390, 345, 330, 30, 15, 29, 31, -30, -210, -570, -45, -135, -15}

\* The sequence of the first k days.
OffsetInput(k) == <<HitStat(1, StatsOfDays(1..k))>>

\* One call of applyOffset.
DoApplyOffset(hh, offset) ==
    /\ lastQuery = NoQuery
    /\ lastQuery' = [op |-> "applyOffset", hh |-> hh, offset |-> offset,
                     hours |-> OffsetHours(offset), out |-> applyOffset(hh, offset)]
    /\ UNCHANGED <<LastMemstore, pathVars, portVars, dbVars, memVars, sessVars, aggHits, reindexed, lastCall, nHits,
                   settings, rawHits, hitCounts, hitStats, lastRetention>>

\* applyOffset is called on the result of the last call with the offset negated.
DoApplyOffsetBack ==
    /\ lastQuery.op = "applyOffset" /\ ~lastQuery.out.panic
    /\ lastQuery' = [op |-> "applyOffsetBack", hh |-> lastQuery.hh, offset |-> lastQuery.offset,
                     hours |-> lastQuery.hours, first |-> lastQuery.out,
                     out |-> applyOffset(lastQuery.out.hh, -lastQuery.offset)]
    /\ UNCHANGED <<LastMemstore, pathVars, portVars, dbVars, memVars, sessVars, aggHits, reindexed, lastCall, nHits,
                   settings, rawHits, hitCounts, hitStats, lastRetention>>

NextOffset ==
    \/ \E k \in 0..MaxOffsetDays, offset \in OffsetMinutes : DoApplyOffset(OffsetInput(k), offset)
    \/ \E offset \in OffsetMinutes : DoApplyOffset(<<>>, offset)
    \/ DoApplyOffsetBack

SpecOffset == Init /\ [][NextOffset]_vars

(***************************************************************************)
(* The query engine and the retention task on stored hits                  *)
(***************************************************************************)
\* The hits stored: two sites, two paths, 14:00 and 14:30 of the first day
\* and 14:30 of the third.
QueryHits ==
    { HitAt(1, 1, 28, TRUE), HitAt(1, 1, 29, FALSE), HitAt(1, 2, 29, TRUE),
      HitAt(1, 1, 125, TRUE), HitAt(2, 1, 29, TRUE), HitAt(2, 2, 125, FALSE) }

\* The starts and ends of the windows asked for.
QueryTimes == {28, 29, 125}

RECURSIVE SeqBag(_)
SeqBag(s) == IF Len(s) = 0 THEN EmptyBag ELSE SetToBag({s[1]}) (+) SeqBag(Tail(s))

\* gctest.StoreHits(ctx, t, false, hits...) for the site s: the hits are
\* inserted and the two rollups updated.
DoStoreHits(s, batch) ==
    /\ lastQuery = NoQuery
    /\ BagCardinality(rawHits) + Len(batch) <= MaxStored
    /\ rawHits' = rawHits (+) SeqBag(batch)
    /\ hitCounts' \in updateHitCounts(hitCounts, s, batch)
    /\ hitStats' \in updateHitStats(hitStats, s, batch)
    /\ lastRetention' = NoRetention
    /\ UNCHANGED <<LastMemstore, pathVars, portVars, dbVars, memVars, sessVars, aggHits, reindexed, lastCall, nHits,
                   settings, lastQuery>>

\* The site's data retention is set to days.
DoSetDataRetention(s, days) ==
    /\ lastQuery = NoQuery
    /\ settings[s].DataRetention # days
    /\ settings' = [settings EXCEPT ![s].DataRetention = days]
    /\ lastRetention' = NoRetention
    /\ UNCHANGED <<LastMemstore, pathVars, portVars, dbVars, memVars, sessVars, aggHits, reindexed, lastCall, nHits,
                   rawHits, hitCounts, hitStats, lastQuery>>

\* The site's time zone is set to one with the offset in minutes.
DoSetTimezone(s, offset) ==
    /\ lastQuery = NoQuery
    /\ settings[s].Offset # offset
    /\ settings' = [settings EXCEPT ![s].Offset = offset]
    /\ lastRetention' = NoRetention
    /\ UNCHANGED <<LastMemstore, pathVars, portVars, dbVars, memVars, sessVars, aggHits, reindexed, lastCall, nHits,
                   rawHits, hitCounts, hitStats, lastQuery>>

\* cron runs DataRetention at the time now.
DoDataRetention(now, listFails, failing) ==
    /\ lastQuery = NoQuery
    /\ LET r == DataRetention(settings, rawHits, hitCounts, hitStats, now, listFails, failing)
       IN  /\ rawHits' = r.raw
           /\ hitCounts' = r.counts
           /\ hitStats' = r.stats
           /\ lastRetention' = [op |-> "DataRetention", now |-> now, before |-> rawHits,
                                listFails |-> listFails, calls |-> r.calls, err |-> r.err]
    /\ UNCHANGED <<LastMemstore, pathVars, portVars, dbVars, memVars, sessVars, aggHits, reindexed, lastCall, nHits,
                   settings, lastQuery>>

\* HitStats.List for the site s; a query changes nothing, so a behaviour
\* ends with one.
DoList(s, start, end, daily) ==
    /\ lastQuery = NoQuery
    /\ \E r \in List(hitCounts, hitStats, s, settings[s], start, end, daily) :
          lastQuery' = [op |-> "List", site |-> s, start |-> start, end |-> end,
                        daily |-> daily, out |-> r]
    /\ UNCHANGED <<LastMemstore, pathVars, portVars, dbVars, memVars, sessVars, aggHits, reindexed, lastCall, nHits,
                   settings, rawHits, hitCounts, hitStats, lastRetention>>

\* HitStat.Totals for the site s.
DoTotals(s, start, end, daily) ==
    /\ lastQuery = NoQuery
    /\ lastQuery' = [op |-> "Totals", site |-> s, start |-> start, end |-> end, daily |-> daily,
                     out |-> Totals(hitCounts, s, settings[s], start, end, daily)]
    /\ UNCHANGED <<LastMemstore, pathVars, portVars, dbVars, memVars, sessVars, aggHits, reindexed, lastCall, nHits,
                   settings, rawHits, hitCounts, hitStats, lastRetention>>

\* The batches of hits of the site s stored by one call.
Batches(s) == SeqsUpTo({h \in QueryHits : h.Site = s}, 2) \ {<<>>}

NextList ==
    \/ \E s \in DOMAIN settings : \E batch \in Batches(s) : DoStoreHits(s, batch)
    \/ \E s \in DOMAIN settings, offset \in {-120, 0, 120} : DoSetTimezone(s, offset)
    \/ \E s \in DOMAIN settings, start \in QueryTimes, end \in QueryTimes, daily \in BOOLEAN :
          DoList(s, start, end, daily)
    \/ \E s \in DOMAIN settings, start \in QueryTimes, end \in QueryTimes, daily \in BOOLEAN :
          DoTotals(s, start, end, daily)

SpecList == Init /\ [][NextList]_vars

\* Retention runs at 14:30 of the second day or of the fourth; the List
\* after it spans all the hits.
NextRetention ==
    \/ \E s \in DOMAIN settings : \E batch \in Batches(s) : DoStoreHits(s, batch)
    \/ \E s \in DOMAIN settings, days \in {-1, 0, 1} : DoSetDataRetention(s, days)
    \/ \E now \in {77, 173}, failing \in SUBSET DOMAIN settings : DoDataRetention(now, FALSE, failing)
    \/ \E now \in {77, 173} : DoDataRetention(now, TRUE, {})
    \/ \E s \in DOMAIN settings : DoList(s, 0, 143, FALSE)

SpecRetention == Init /\ [][NextRetention]_vars

(***************************************************************************)
(* Totals over a window and over two windows that split it                 *)
(***************************************************************************)
\* The times the windows begin and end at: 14:00, 14:30 and 15:00 of the
\* first day and 14:30 of the third.
SplitTimes == {28, 29, 30, 125}

\* The hours that begin within [start, end].
BucketsIn(start, end) == {t \in start..end : t % 2 = 0}

\* [start, mid1] and [mid2, end] do not overlap and their hours are those of
\* [start, end].
SplitsWindow(start, mid1, mid2, end) ==
    /\ start <= mid1 /\ mid1 < mid2 /\ mid2 <= end
    /\ BucketsIn(start, mid1) \cup BucketsIn(mid2, end) = BucketsIn(start, end)

\* Totals is called for [start, end], for [start, mid1] and for [mid2, end]
\* on the same tables.
DoTotalsSplit(s, start, mid1, mid2, end, daily) ==
    /\ lastQuery = NoQuery
    /\ SplitsWindow(start, mid1, mid2, end)
    /\ lastQuery' = [op |-> "TotalsSplit", site |-> s, start |-> start, mid1 |-> mid1,
                     mid2 |-> mid2, end |-> end, daily |-> daily,
                     whole |-> Totals(hitCounts, s, settings[s], start, end, daily),
                     w1 |-> Totals(hitCounts, s, settings[s], start, mid1, daily),
                     w2 |-> Totals(hitCounts, s, settings[s], mid2, end, daily)]
    /\ UNCHANGED <<LastMemstore, pathVars, portVars, dbVars, memVars, sessVars, aggHits, reindexed, lastCall, nHits,
                   settings, rawHits, hitCounts, hitStats, lastRetention>>

NextTotals ==
    \/ \E s \in DOMAIN settings : \E batch \in Batches(s) : DoStoreHits(s, batch)
    \/ \E s \in DOMAIN settings, offset \in {-120, 0, 120} : DoSetTimezone(s, offset)
    \/ \E s \in DOMAIN settings, start \in SplitTimes, mid1 \in SplitTimes, mid2 \in SplitTimes,
          end \in SplitTimes, daily \in BOOLEAN : DoTotalsSplit(s, start, mid1, mid2, end, daily)

SpecTotals == Init /\ [][NextTotals]_vars

(***************************************************************************)
(* Resolving paths: the steps of Hit.Defaults' call of cleanPath and       *)
(* Path.GetOrInsert, and of the updateTitle that GetOrInsert calls for a   *)
(* row it found.  Each step is one statement on the database or on the     *)
(* cache; what lies between two of them is local to the caller.            *)
(***************************************************************************)
\* The paths asked for: /a with and without trailing slashes, in either
\* case, with spaces around it, without its leading slash, the root and the
\* empty path.
PathRaws ==
    {<<"/", "a">>, <<"/", "a", "/">>, <<"/", "A">>, <<"/", "A", "/">>, <<"a">>, <<"a", "/">>,
     <<" ", "/", "a", " ">>, <<"/">>, <<>>, <<"/", "a", "/", "a">>}

PathInputs == [site : {1, 2}, raw : PathRaws, title : {""}, event : BOOLEAN]

\* The calls that race: one site, paths equal up to case and a trailing slash.
RaceInputs == [site : {1}, raw : {<<"/", "a">>, <<"/", "A", "/">>, <<"/", "a", "/", "a">>}, title : {""}, event : {FALSE}]

\* The calls that change titles: one path, two titles.
TitleInputs == [site : {1}, raw : {<<"/", "a">>}, title : {"a", "b"}, event : {FALSE}]

\* What a finished call returned: the hit's path as given and as cleaned,
\* p.ID and whether GetOrInsert returned an error.
PathResult(pr, id, err) ==
    [site |-> pr.site, raw |-> pr.raw, event |-> pr.event, path |-> pr.path, id |-> id, err |-> err]

\* The list cached under k, nil when there is none.
Cached(cache, k) == IF k \in DOMAIN cache THEN cache[k] ELSE <<>>

\* The function f without the key k.
Without(f, k) == [x \in DOMAIN f \ {k} |-> f[x]]

\* Hit.Defaults up to the select of GetOrInsert: cleanPath, Validate, the
\* select, and for a row found the comparison of the titles that opens
\* updateTitle.  max bounds the number of calls.
DoGetOrInsertSelect(p, in, max) ==
    /\ pathProc[p].pc = "idle"
    /\ nPathCalls < max
    /\ nPathCalls' = nPathCalls + 1
    /\ LET path == cleanPath(in.raw, in.event)
           pr == [IdlePath EXCEPT !.site = in.site, !.raw = in.raw, !.path = path,
                                  !.title = in.title, !.event = in.event]
           found == PathSelect(pathsTable, in.site, path)
       IN  IF ~PathValid(path)
           THEN /\ pathResults' = pathResults \cup {PathResult(pr, 0, TRUE)}
                /\ UNCHANGED pathProc
           ELSE IF found = {}
           THEN /\ pathProc' = [pathProc EXCEPT ![p] = [pr EXCEPT !.pc = "insert"]]
                /\ UNCHANGED pathResults
           ELSE \E row \in found :
                    IF in.title = row.Title
                    THEN /\ pathResults' = pathResults \cup {PathResult(pr, row.ID, FALSE)}
                         /\ UNCHANGED pathProc
                    ELSE /\ pathProc' = [pathProc EXCEPT ![p] = [pr EXCEPT !.pc = "get", !.id = row.ID]]
                         /\ UNCHANGED pathResults
    /\ UNCHANGED <<LastMemstore, dbVars, memVars, sessVars, aggHits, reindexed, lastCall, nHits, queryVars, portVars,
                   pathsTable, changedTitles, titleSeen>>

\* The insert of GetOrInsert.  The schema is not part of the sources: with a
\* unique index on (site_id, lower(path)) the insert of a second row for the
\* key fails and GetOrInsert returns the error, without one it adds the row.
DoGetOrInsertInsert(p, unique) ==
    /\ pathProc[p].pc = "insert"
    /\ LET pr == pathProc[p]
           taken == PathSelect(pathsTable, pr.site, pr.path) # {}
           id == Len(pathsTable) + 1
       IN  IF taken /\ unique
           THEN /\ pathResults' = pathResults \cup {PathResult(pr, 0, TRUE)}
                /\ UNCHANGED pathsTable
           ELSE /\ pathsTable' = Append(pathsTable, PathRow(id, pr.site, pr.path, pr.title, pr.event))
                /\ pathResults' = pathResults \cup {PathResult(pr, id, FALSE)}
    /\ pathProc' = [pathProc EXCEPT ![p] = IdlePath]
    /\ UNCHANGED <<LastMemstore, dbVars, memVars, sessVars, aggHits, reindexed, lastCall, nHits, queryVars, portVars,
                   changedTitles, titleSeen, nPathCalls>>

\* updateTitle: _, ok := changedTitles.Get(k)
DoUpdateTitleGet(p) ==
    /\ pathProc[p].pc = "get"
    /\ pathProc' = [pathProc EXCEPT ![p].pc =
                        IF TitleKey(pathProc[p].id) \in DOMAIN changedTitles THEN "modify" ELSE "set"]
    /\ UNCHANGED <<LastMemstore, dbVars, memVars, sessVars, aggHits, reindexed, lastCall, nHits, queryVars, portVars,
                   pathsTable, changedTitles, pathResults, titleSeen, nPathCalls>>

\* updateTitle: changedTitles.SetDefault(k, []string{newTitle}); return nil
DoUpdateTitleSetDefault(p) ==
    /\ pathProc[p].pc = "set"
    /\ LET pr == pathProc[p]
           k == TitleKey(pr.id)
       IN  /\ changedTitles' = (k :> <<pr.title>>) @@ changedTitles
           /\ titleSeen' = (k :> Append(Cached(titleSeen, k), pr.title)) @@ titleSeen
           /\ pathResults' = pathResults \cup {PathResult(pr, pr.id, FALSE)}
    /\ pathProc' = [pathProc EXCEPT ![p] = IdlePath]
    /\ UNCHANGED <<LastMemstore, dbVars, memVars, sessVars, aggHits, reindexed, lastCall, nHits, queryVars, portVars,
                   pathsTable, nPathCalls>>

\* updateTitle: changedTitles.Modify(k, ...), which does nothing for a key
\* that is not cached, and the grouping of the titles it handed out.
DoUpdateTitleModify(p) ==
    /\ pathProc[p].pc = "modify"
    /\ LET pr == pathProc[p]
           k == TitleKey(pr.id)
           titles == IF k \in DOMAIN changedTitles THEN Append(changedTitles[k], pr.title) ELSE <<>>
       IN  /\ changedTitles' = IF k \in DOMAIN changedTitles
                               THEN [changedTitles EXCEPT ![k] = titles]
                               ELSE changedTitles
           /\ titleSeen' = (k :> Append(Cached(titleSeen, k), pr.title)) @@ titleSeen
           /\ IF Frequent(titles) = {}
              THEN /\ pathResults' = pathResults \cup {PathResult(pr, pr.id, FALSE)}
                   /\ pathProc' = [pathProc EXCEPT ![p] = IdlePath]
              ELSE /\ pathProc' = [pathProc EXCEPT ![p].pc = "update", ![p].titles = titles]
                   /\ UNCHANGED pathResults
    /\ UNCHANGED <<LastMemstore, dbVars, memVars, sessVars, aggHits, reindexed, lastCall, nHits, queryVars, portVars,
                   pathsTable, nPathCalls>>

\* updateTitle: update paths set title=$1 where path_id=$2 for a title seen
\* more than ten times; an error is returned to GetOrInsert, which logs it.
DoUpdateTitleExec(p, t, fails) ==
    /\ pathProc[p].pc = "update"
    /\ t \in Frequent(pathProc[p].titles)
    /\ LET pr == pathProc[p]
       IN  IF fails
           THEN /\ pathResults' = pathResults \cup {PathResult(pr, pr.id, FALSE)}
                /\ pathProc' = [pathProc EXCEPT ![p] = IdlePath]
                /\ UNCHANGED pathsTable
           ELSE /\ pathsTable' = [i \in DOMAIN pathsTable |->
                                    IF pathsTable[i].ID = pr.id
                                    THEN [pathsTable[i] EXCEPT !.Title = t]
                                    ELSE pathsTable[i]]
                /\ pathProc' = [pathProc EXCEPT ![p].pc = "delete"]
                /\ UNCHANGED pathResults
    /\ UNCHANGED <<LastMemstore, dbVars, memVars, sessVars, aggHits, reindexed, lastCall, nHits, queryVars, portVars,
                   changedTitles, titleSeen, nPathCalls>>

\* updateTitle: changedTitles.Delete(k); break; return nil
DoUpdateTitleDelete(p) ==
    /\ pathProc[p].pc = "delete"
    /\ LET pr == pathProc[p]
           k == TitleKey(pr.id)
       IN  /\ changedTitles' = Without(changedTitles, k)
           /\ titleSeen' = Without(titleSeen, k)
           /\ pathResults' = pathResults \cup {PathResult(pr, pr.id, FALSE)}
    /\ pathProc' = [pathProc EXCEPT ![p] = IdlePath]
    /\ UNCHANGED <<LastMemstore, dbVars, memVars, sessVars, aggHits, reindexed, lastCall, nHits, queryVars, portVars,
                   pathsTable, nPathCalls>>

\* One caller resolving one path after the other.
NextPathSeq ==
    \/ \E in \in PathInputs : DoGetOrInsertSelect(1, in, MaxPathCalls)
    \/ \E unique \in BOOLEAN : DoGetOrInsertInsert(1, unique)

SpecPathSeq == Init /\ [][NextPathSeq]_vars

\* Callers resolving paths at the same time.
NextPathRace ==
    \/ \E p \in PathProcs, in \in RaceInputs : DoGetOrInsertSelect(p, in, MaxRaceCalls)
    \/ \E p \in PathProcs, unique \in BOOLEAN : DoGetOrInsertInsert(p, unique)

SpecPathRace == Init /\ [][NextPathRace]_vars

\* Callers resolving one path with changing titles at the same time.
NextTitle ==
    \/ \E p \in PathProcs, in \in TitleInputs : DoGetOrInsertSelect(p, in, MaxTitleCalls)
    \/ \E p \in PathProcs, unique \in BOOLEAN : DoGetOrInsertInsert(p, unique)
    \/ \E p \in PathProcs : DoUpdateTitleGet(p)
    \/ \E p \in PathProcs : DoUpdateTitleSetDefault(p)
    \/ \E p \in PathProcs : DoUpdateTitleModify(p)
    \/ \E p \in PathProcs, t \in {"a", "b"}, fails \in BOOLEAN : DoUpdateTitleExec(p, t, fails)
    \/ \E p \in PathProcs : DoUpdateTitleDelete(p)

SpecTitle == Init /\ [][NextTitle]_vars

(***************************************************************************)
(* Import of a CSV file into the Memstore.                                 *)
(***************************************************************************)
\* A row as Export.Run writes it.
GoodLine == Line(TRUE, NumFields, "/a", "false", "0", "true", 29, "", "", 1)

\* The lines of the files: rows that pass, with and without a size and of
\* two sessions, and rows with one thing wrong each, with and without a size.
ImportLines ==
    { GoodLine,
      [GoodLine EXCEPT !.Size = "1", !.Session = 2, !.RefScheme = "h"],
      [GoodLine EXCEPT !.csv = FALSE],
      [GoodLine EXCEPT !.nfields = NumFields - 1],
      [GoodLine EXCEPT !.Path = ""],
      [GoodLine EXCEPT !.Event = "x"],
      [GoodLine EXCEPT !.Bot = "x"],
      [GoodLine EXCEPT !.FirstVisit = "x"],
      [GoodLine EXCEPT !.CreatedAt = BadDate],
      [GoodLine EXCEPT !.RefScheme = "x"],
      [GoodLine EXCEPT !.Size = "x"],
      [GoodLine EXCEPT !.Path = "", !.Size = "1"],
      [GoodLine EXCEPT !.CreatedAt = BadDate, !.Size = "1", !.Session = 2] }

ImportHeaders == {"ok", "unreadable", "version", "nofirst"}

\* Import(ctx, fp, false, false) for a file with the header and the lines.
DoImport(header, lines) ==
    /\ lastImport = NoImport
    /\ LET r == Import(memHits, sessionSalt, sessionID, TheSite, header, lines)
           new == SubSeq(r.buf, Len(memHits) + 1, Len(r.buf))
       IN  /\ memHits' = r.buf
           /\ appended' = appended \o new
           /\ sessionID' = r.counter
           /\ issued' = issued \o [i \in DOMAIN r.issued |->
                                    [hi |-> r.issued[i].hi, lo |-> r.issued[i].lo, epoch |-> epoch]]
           /\ lastImport' = [op |-> "Import", header |-> header, lines |-> lines,
                             started |-> r.started, panic |-> r.panic, hits |-> new,
                             n |-> r.n, errs |-> r.errs]
    /\ UNCHANGED <<LastMemstore, dbVars, drained, sessionSalt, epoch, aggHits, reindexed, lastCall, nHits,
                   queryVars, pathVars, exportHits, exportsTable, exportFiles, exportProc,
                   exportWritten>>

\* The lines of the files that replace the data of a site.
ReplaceLines == {GoodLine, [GoodLine EXCEPT !.Path = ""]}

\* Import(ctx, fp, true, false) for the site s and a file with the header
\* and the lines; deleteFails is an error of site.DeleteAll.
DoImportReplace(s, header, lines, deleteFails) ==
    /\ lastImport = NoImport
    /\ LET r == ImportReplace(rawHits, hitCounts, hitStats, memHits, sessionSalt, sessionID,
                              s, header, lines, deleteFails)
           new == SubSeq(r.imp.buf, Len(memHits) + 1, Len(r.imp.buf))
       IN  /\ rawHits' = r.tbls.raw
           /\ hitCounts' = r.tbls.counts
           /\ hitStats' = r.tbls.stats
           /\ memHits' = r.imp.buf
           /\ appended' = appended \o new
           /\ sessionID' = r.imp.counter
           /\ issued' = issued \o [i \in DOMAIN r.imp.issued |->
                                    [hi |-> r.imp.issued[i].hi, lo |-> r.imp.issued[i].lo, epoch |-> epoch]]
           /\ lastImport' = [op |-> "ImportReplace", site |-> s, header |-> header, lines |-> lines,
                             deleteFails |-> deleteFails, deleted |-> r.deleted,
                             started |-> r.imp.started, panic |-> r.imp.panic, hits |-> new,
                             n |-> r.imp.n, errs |-> r.imp.errs,
                             before |-> [raw |-> rawHits, counts |-> hitCounts, stats |-> hitStats]]
    /\ UNCHANGED <<LastMemstore, dbVars, drained, sessionSalt, epoch, aggHits, reindexed, lastCall, nHits,
                   settings, lastQuery, lastRetention, pathVars, exportHits, exportsTable,
                   exportFiles, exportProc, exportWritten>>

\* Hits are stored, then a file is imported.
NextImportReplace ==
    \/ \E s \in DOMAIN settings : \E batch \in Batches(s) : lastImport = NoImport /\ DoStoreHits(s, batch)
    \/ \E s \in DOMAIN settings, header \in ImportHeaders, deleteFails \in BOOLEAN :
        \E lines \in SeqsUpTo(ReplaceLines, MaxImportLines) : DoImportReplace(s, header, lines, deleteFails)

SpecImportReplace == Init /\ [][NextImportReplace]_vars

NextImport ==
    \E header \in ImportHeaders, lines \in SeqsUpTo(ImportLines, MaxImportLines) : DoImport(header, lines)

SpecImport == Init /\ [][NextImport]_vars

(***************************************************************************)
(* Export of the hits of a site.                                           *)
(***************************************************************************)
\* A hit of the site is stored.
DoInsertExportHit ==
    /\ exportHits < MaxExportHits
    /\ exportHits' = exportHits + 1
    /\ UNCHANGED <<LastMemstore, dbVars, memVars, sessVars, aggHits, reindexed, lastCall, nHits, queryVars,
                   pathVars, lastImport, exportsTable, exportFiles, exportProc, exportWritten>>

\* The cursors an export may be started from: the beginning and the
\* last_hit_id of the exports rows that have one.
Cursors == {0} \cup {exportsTable[i].LastHitID : i \in {j \in DOMAIN exportsTable : exportsTable[j].LastHitID # NoHitID}}

\* Export.Create(ctx, startFrom) and the start of Export.Run up to its loop.
DoExportCreate(startFrom) ==
    /\ exportProc.pc = "idle"
    /\ Len(exportsTable) < MaxExports
    /\ startFrom \in Cursors
    /\ LET id == Len(exportsTable) + 1
       IN  /\ exportsTable' = Append(exportsTable, ExportRowOf(id, startFrom))
           /\ exportFiles' = Append(exportFiles, <<>>)
           /\ exportWritten' = Append(exportWritten, RunHistory)
           /\ exportProc' = [IdleExport EXCEPT !.pc = "fetch", !.id = id, !.last = startFrom]
    /\ UNCHANGED <<LastMemstore, dbVars, memVars, sessVars, aggHits, reindexed, lastCall, nHits, queryVars,
                   pathVars, lastImport, exportHits>>

\* The context of the running export is cancelled.
DoExportCancel ==
    /\ exportProc.pc # "idle"
    /\ ~exportProc.cancelled
    /\ exportProc' = [exportProc EXCEPT !.cancelled = TRUE]
    /\ exportWritten' = [exportWritten EXCEPT
            ![exportProc.id].midLoop = exportProc.pc = "fetch",
            ![exportProc.id].atCancel = Len(exportWritten[exportProc.id].rows)]
    /\ UNCHANGED <<LastMemstore, dbVars, memVars, sessVars, aggHits, reindexed, lastCall, nHits, queryVars,
                   pathVars, lastImport, exportHits, exportsTable, exportFiles>>

\* One turn of the loop of Export.Run: the page is fetched, and when it has
\* hits and there was no error they are counted and written and the writer
\* is flushed.  fails is an error of the query, writeFails one of the writer.
DoExportPage(fails, writeFails) ==
    /\ exportProc.pc = "fetch"
    /\ LET r == ExportRowsExport(exportHits, ExportLimit, exportProc.last, fails \/ exportProc.cancelled)
           id == exportProc.id
       IN  IF Len(r.hits) = 0
           THEN /\ exportProc' = [exportProc EXCEPT !.last = r.last,
                                                     !.pc = IF r.err THEN "fail" ELSE "finish"]
                /\ UNCHANGED <<exportFiles, exportWritten>>
           ELSE IF r.err
           THEN /\ exportProc' = [exportProc EXCEPT !.last = r.last, !.pc = "fail"]
                /\ UNCHANGED <<exportFiles, exportWritten>>
           ELSE IF writeFails
           THEN /\ exportProc' = [exportProc EXCEPT !.last = r.last, !.pc = "fail",
                                                     !.numRows = @ + Len(r.hits)]
                /\ UNCHANGED <<exportFiles, exportWritten>>
           ELSE /\ exportProc' = [exportProc EXCEPT !.last = r.last, !.numRows = @ + Len(r.hits)]
                /\ exportFiles' = [exportFiles EXCEPT ![id] = @ \o r.hits]
                /\ exportWritten' = [exportWritten EXCEPT ![id].rows = @ \o r.hits]
    /\ UNCHANGED <<LastMemstore, dbVars, memVars, sessVars, aggHits, reindexed, lastCall, nHits, queryVars,
                   pathVars, lastImport, exportHits, exportsTable>>

\* Export.Run after the loop with an error: the error is written to the
\* exports row, the file is removed.  fails is an error of that update,
\* which also fails when the context is cancelled; Run logs it.
DoExportFail(fails) ==
    /\ exportProc.pc = "fail"
    /\ LET id == exportProc.id
           noUpdate == fails \/ exportProc.cancelled
           r == ExportFailed(exportsTable[id], exportFiles[id], noUpdate)
       IN  /\ exportsTable' = [exportsTable EXCEPT ![id] = r.row]
           /\ exportFiles' = [exportFiles EXCEPT ![id] = r.file]
           /\ exportWritten' = [exportWritten EXCEPT ![id].done = TRUE, ![id].failed = TRUE,
                                                     ![id].updateFailed = noUpdate]
    /\ exportProc' = IdleExport
    /\ UNCHANGED <<LastMemstore, dbVars, memVars, sessVars, aggHits, reindexed, lastCall, nHits, queryVars,
                   pathVars, lastImport, exportHits>>

\* Export.Run after the loop without an error: the file is closed and
\* hashed, then finished_at, num_rows and last_hit_id are written to the
\* exports row.  fails is an error of the file or of the update, after which
\* Run logs and returns.
DoExportFinish(fails) ==
    /\ exportProc.pc = "finish"
    /\ exportsTable' = IF fails \/ exportProc.cancelled THEN exportsTable
                       ELSE [exportsTable EXCEPT ![exportProc.id].Finished = TRUE,
                                                 ![exportProc.id].NumRows = exportProc.numRows,
                                                 ![exportProc.id].LastHitID = exportProc.last]
    /\ exportWritten' = [exportWritten EXCEPT ![exportProc.id].done = TRUE]
    /\ exportProc' = IdleExport
    /\ UNCHANGED <<LastMemstore, dbVars, memVars, sessVars, aggHits, reindexed, lastCall, nHits, queryVars,
                   pathVars, lastImport, exportHits, exportFiles>>

NextExport ==
    \/ DoInsertExportHit
    \/ \E startFrom \in 0..MaxExportHits : DoExportCreate(startFrom)
    \/ DoExportCancel
    \/ \E fails, writeFails \in BOOLEAN : DoExportPage(fails, writeFails)
    \/ \E fails \in BOOLEAN : DoExportFail(fails)
    \/ \E fails \in BOOLEAN : DoExportFinish(fails)

SpecExport == Init /\ [][NextExport]_vars

(***************************************************************************)
(* The queries and applyOffset on its own, for the shape of what they      *)
(* return.                                                                 *)
(***************************************************************************)
NextShape ==
    \/ NextList
    \/ NextOffset

SpecShape == Init /\ [][NextShape]_vars

(***************************************************************************)
(* Properties                                                              *)
(***************************************************************************)

\* C1: every appended hit is drained by exactly one Persist call or is still
\* buffered: the hits appended so far are, in order, the hits drained so far
\* followed by the buffer (identical hits counted each).  Right after a
\* Persist the buffer is empty, so that a Persist following it with no Append
\* in between drains nothing, and a Persist that did not fail has stored
\* exactly the hits it drained.
C1_DrainedExactlyOnce ==
    /\ appended = drained \o memHits
    /\ lastCall.op = "Persist" =>
          /\ memHits = <<>>
          /\ ~lastCall.err => hitsTable = lastCall.storedBefore \o lastCall.hits

\* C1 witness: two identical hits were appended and drained by one Persist,
\* and the Persist after it drained nothing.
C1_Witness ==
    /\ lastCall.op = "Persist" /\ lastCall.hits = <<>>
    /\ Len(drained) = 2 /\ drained[1] = drained[2]
    /\ hitsTable = drained

\* The number of hits of hs with bot code 0 and the key (day, location, path),
\* or of those with FirstVisit set.
HumanCount(hs, day, loc, path, uniqueOnly) ==
    Cardinality({i \in DOMAIN hs :
        /\ hs[i].Bot = 0
        /\ FormatDay(hs[i].CreatedAt) = day /\ hs[i].Location = loc /\ hs[i].PathID = path
        /\ (uniqueOnly => hs[i].FirstVisit)})

\* C2: after successful incremental updateLocationStats calls from an empty
\* table, every key (day, location, path_id) with a non-bot hit in the batches
\* has exactly one row, and each row holds the number of non-bot hits of its
\* key as count and the number of those with FirstVisit as count_unique.
\* Stated for batches whose bot codes are not negative, where "bot code is 0"
\* and the loop's test agree.
C2_RowsCountHits ==
    (~reindexed /\ \A i \in DOMAIN aggHits : aggHits[i].Bot >= 0) =>
        LET t == tables["location_stats"]
        IN  /\ \A r \in BagToSet(t) :
                  /\ t[r] = 1
                  /\ r.count = HumanCount(aggHits, r.day, r.location, r.path_id, FALSE)
                  /\ r.count_unique = HumanCount(aggHits, r.day, r.location, r.path_id, TRUE)
            /\ \A i \in DOMAIN aggHits :
                  aggHits[i].Bot = 0 =>
                      \E r \in BagToSet(t) :
                          LocMatches(r, aggHits[i].Site, FormatDay(aggHits[i].CreatedAt),
                                     aggHits[i].Location, aggHits[i].PathID)

\* The rows of tbl with the key of a hit of hits that the loop does not skip.
RowsOfKeys(tbl, hits) ==
    {r \in BagToSet(tbl) : \E i \in DOMAIN hits :
        /\ ~LocSkips(hits[i])
        /\ LocMatches(r, hits[i].Site, FormatDay(hits[i].CreatedAt),
                      hits[i].Location, hits[i].PathID)}

\* C4: when the table holds no row for the keys of the batch, a successful
\* updateLocationStats call in one mode leaves exactly the table that the
\* call in the other mode (reindex for incremental, incremental for reindex)
\* produces from the same table and batch.
C4_ReindexEqualsIncremental ==
    (/\ lastCall.op = "updateLocationStats" /\ ~lastCall.err
     /\ RowsOfKeys(lastCall.before["location_stats"], lastCall.hits) = {}) =>
        {r.tbl : r \in updateLocationStats(lastCall.before["location_stats"], lastCall.site,
                                           lastCall.hits, ~lastCall.isReindex, "none")}
            = {tables["location_stats"]}

\* C4 witness: a reindex call inserted rows for two hits of one key and one of
\* another key next to an older row of a third key.
C4_Witness ==
    /\ lastCall.op = "updateLocationStats" /\ ~lastCall.err /\ lastCall.isReindex
    /\ lastCall.before["location_stats"] # EmptyBag
    /\ RowsOfKeys(lastCall.before["location_stats"], lastCall.hits) = {}
    /\ \E r \in BagToSet(tables["location_stats"]) :
          r.count = 2 /\ r \notin BagToSet(lastCall.before["location_stats"])

\* A ReindexStats run that did not fail follows a run that did not fail, with
\* the same site, hit set and table list.
SecondReindex ==
    /\ lastCall.op = "ReindexStats" /\ ~lastCall.err
    /\ lastCall'.op = "ReindexStats" /\ ~lastCall'.err
    /\ lastCall'.site = lastCall.site
    /\ lastCall'.hits = lastCall.hits
    /\ lastCall'.names = lastCall.names

\* C3 as stated: the second of two ReindexStats runs with the same site, hit
\* set and table list leaves the rollup rows as the first run left them.
C3_SecondRunChangesNothing == [][SecondReindex => tables' = tables]_vars

\* C3 amended: ReindexStats deletes no row and reads none, so the second of two
\* runs with the same site, hit set and table list inserts once more exactly
\* the rows the first run inserted: every row the first run added is held
\* twice as often after the second.
C3_SecondRunInsertsAgain ==
    [][SecondReindex =>
          \A t \in TableNames :
              tables'[t] = tables[t] (+) (tables[t] (-) lastCall.before[t])]_vars

\* C3 witness: after the second run of ReindexStats for "all" with one hit the
\* location_stats row of the hit, absent before the first run and inserted by
\* it, is held twice.
C3_Witness ==
    /\ lastCall.op = "ReindexStats" /\ ~lastCall.err /\ lastCall.names = <<"all">>
    /\ Len(lastCall.hits) = 1
    /\ \E r \in BagToSet(tables["location_stats"]) :
          /\ r.count = 1
          /\ tables["location_stats"][r] = 2
          /\ r \in BagToSet(lastCall.before["location_stats"])
          /\ lastCall.before["location_stats"][r] = 1

\* The hits of hs whose bot code is 0.
HumanHits(hs) == SelectSeq(hs, LAMBDA h : h.Bot = 0)

\* C5: a hit whose bot code is not 0 changes no rollup row: after a
\* PersistAndStat whose UpdateStats calls all succeeded, and after a successful
\* ReindexStats, the tables are what the same operation yields from the same
\* tables for the batch without its hits of bot code # 0.
C5_BotsChangeNothing ==
    /\ (/\ lastCall.op = "PersistAndStat" /\ ~lastCall.err
        /\ \A s \in DOMAIN lastCall.calls : ~lastCall.calls[s].err) =>
           LET human == HumanHits(lastCall.hits)
           IN  tables \in {r.tables : r \in StatLoop(GroupedSites(human), lastCall.before,
                                                     lastCall.sitesBefore, human,
                                                     [s \in GroupedSites(human) |-> NoFail], <<>>)}
    /\ (lastCall.op = "ReindexStats" /\ ~lastCall.err) =>
           tables \in {r.tables : r \in ReindexStats(lastCall.before, lastCall.sitesBefore,
                                                     lastCall.sitesBefore[lastCall.site],
                                                     HumanHits(lastCall.hits),
                                                     lastCall.names, NoFailR)}

\* The identifiers issued in epoch e, in the order of the calls.
IssuedIn(e) == SelectSeq(issued, LAMBDA x : x.epoch = e)

\* C6: the identifiers SessionID returned within one salt epoch share their
\* high-order part, each has a low-order part one greater than that of the
\* call before it, and no two of them are equal.
C6_CounterIncreases ==
    \A e \in 0..MaxRefresh :
        LET ids == IssuedIn(e)
        IN  /\ \A i, j \in DOMAIN ids : ids[i].hi = ids[j].hi
            /\ \A i \in DOMAIN ids : i > 1 => ids[i].lo = ids[i - 1].lo + 1
            /\ \A i, j \in DOMAIN ids : i < j => (ids[i].lo < ids[j].lo /\ ids[i] # ids[j])

\* C6 witness: three successive calls in one epoch.
C6_Witness ==
    \E e \in 0..MaxRefresh :
        /\ Len(IssuedIn(e)) = 3
        /\ IssuedIn(e)[3].lo = IssuedIn(e)[1].lo + 2

SiteRows(tbl, s) == [r \in {x \in BagToSet(tbl) : x.site_id = s} |-> tbl[r]]

\* C8: each UpdateStats call of a PersistAndStat ran the aggregators in the
\* order of Funs; a call in which aggregator k failed returned an error, ran
\* aggregators 1..k only, left the site's rows of tables k+1..7 as they were
\* and left in tables 1..k-1 what those aggregators committed; a call in
\* which nothing failed ran all seven and returned no error.
C8_StopsAtFirstError ==
    lastCall.op = "PersistAndStat" =>
        \A s \in DOMAIN lastCall.calls :
            LET c == lastCall.calls[s]
                hits == GroupedHits(lastCall.hits, s)
            IN  /\ \E k \in 0..Len(Funs) : c.ran = SubSeq(Funs, 1, k)
                /\ c.at = 0 => (~c.err /\ c.ran = Funs)
                /\ c.at \in DOMAIN Funs =>
                      /\ c.err
                      /\ c.ran = SubSeq(Funs, 1, c.at)
                      /\ \A j \in DOMAIN Funs :
                            /\ j > c.at =>
                                  SiteRows(tables[Funs[j]], s)
                                      = SiteRows(lastCall.before[Funs[j]], s)
                            /\ j < c.at =>
                                  SiteRows(tables[Funs[j]], s) \in
                                      {SiteRows(r.tbl, s)
                                       : r \in RunFun(Funs[j], lastCall.before[Funs[j]], s,
                                                      hits, FALSE, NoFail)}

\* C8 witness: the third aggregator failed; hit_counts holds a new row of the
\* site and browser_stats none.
C8_Witness ==
    /\ lastCall.op = "PersistAndStat"
    /\ \E s \in DOMAIN lastCall.calls :
          /\ lastCall.calls[s].at = 3 /\ lastCall.calls[s].err
          /\ lastCall.calls[s].ran = <<"hit_counts", "ref_counts", "hit_stats">>
          /\ SiteRows(tables["hit_counts"], s) # SiteRows(lastCall.before["hit_counts"], s)
          /\ SiteRows(tables["browser_stats"], s) = EmptyBag

\* C9: no step resets a site's received-data flag; a step sets it only in an
\* UpdateStats call for that site in which all seven aggregators ran without
\* an error (in PersistAndStat, or in a ReindexStats of "all" that returned no
\* error); and an UpdateStats call in which an aggregator failed leaves the
\* flag as it was.
C9_ReceivedDataOneWay ==
    [][\A s \in DOMAIN sites :
          /\ sites[s].ReceivedData => sites'[s].ReceivedData
          /\ (~sites[s].ReceivedData /\ sites'[s].ReceivedData) =>
                \/ /\ lastCall'.op = "PersistAndStat"
                   /\ s \in DOMAIN lastCall'.calls
                   /\ lastCall'.calls[s].ran = Funs
                   /\ ~lastCall'.calls[s].err
                \/ /\ lastCall'.op = "ReindexStats"
                   /\ lastCall'.site = s
                   /\ "all" \in {lastCall'.names[i] : i \in DOMAIN lastCall'.names}
                   /\ ~lastCall'.err
          /\ (/\ lastCall'.op = "PersistAndStat"
              /\ s \in DOMAIN lastCall'.calls
              /\ lastCall'.calls[s].at \in DOMAIN Funs) =>
                sites'[s].ReceivedData = sites[s].ReceivedData]_vars

\* C9 witness: one PersistAndStat set the flag of a site whose aggregators all
\* succeeded and left the flag of a site whose aggregator failed unset.
C9_Witness ==
    /\ lastCall.op = "PersistAndStat"
    /\ \E s, t \in DOMAIN lastCall.calls :
          /\ ~lastCall.sitesBefore[s].ReceivedData /\ sites[s].ReceivedData
          /\ lastCall.calls[s].ran = Funs /\ ~lastCall.calls[s].err
          /\ lastCall.calls[t].at \in DOMAIN Funs /\ lastCall.calls[t].err
          /\ ~sites[t].ReceivedData

\* C10: a PersistAndStat whose Persist succeeded has called UpdateStats once
\* for each site with a drained hit of bot code 0 and for no other site,
\* whether or not the calls for other sites failed.
C10_OneCallPerHumanSite ==
    (lastCall.op = "PersistAndStat" /\ ~lastCall.err) =>
        LET human == HumanHits(lastCall.hits)
        IN  DOMAIN lastCall.calls = {human[i].Site : i \in DOMAIN human}

\* C13: a ReindexStats call for a site whose state is not active, or with an
\* empty hit set, returns no error and leaves every rollup table and every
\* site record as it was, whatever the table names and wherever a statement
\* would have failed.
C13_ReindexNoOp ==
    (/\ lastCall.op = "ReindexStats"
     /\ \/ lastCall.sitesBefore[lastCall.site].State # StateActive
        \/ lastCall.hits = <<>>) =>
        /\ ~lastCall.err
        /\ tables = lastCall.before
        /\ sites = lastCall.sitesBefore

\* C13 witness: the tables hold rows, and the last call was for the
\* soft-deleted site with a hit and the table list "all".
C13_Witness ==
    /\ lastCall.op = "ReindexStats"
    /\ lastCall.sitesBefore[lastCall.site].State # StateActive
    /\ lastCall.hits # <<>> /\ lastCall.names = <<"all">>
    /\ tables["location_stats"] # EmptyBag
    /\ ~sites[lastCall.site].ReceivedData

\* The Stats are sorted by day, one Stat to the day, and lie within the days
\* of [start, end].
SortedWithin(stats, start, end) ==
    /\ \A i, j \in DOMAIN stats : i < j => ParseDay(stats[i].Day) < ParseDay(stats[j].Day)
    /\ \A i \in DOMAIN stats :
          /\ ParseDay(stats[i].Day) >= start \div 48 + 1
          /\ ParseDay(stats[i].Day) <= end \div 48 + 1

C18_ShiftByHours ==
    (/\ lastQuery.op = "applyOffset"
     /\ lastQuery.offset % 60 = 0 /\ lastQuery.offset # 0
     /\ Len(lastQuery.hh) > 0) =>
        \A i \in DOMAIN lastQuery.hh :
            LET in == lastQuery.hh[i].Stats
                out == lastQuery.out.hh[i].Stats
                N == lastQuery.offset \div 60
            IN  Len(in) > 0 =>
                  /\ ~lastQuery.out.panic
                  /\ Len(out) = Len(in) - 1
                  /\ \A k \in DOMAIN out, h \in 0..23 :
                        IF N > 0
                        THEN /\ out[k].Day = in[k + 1].Day
                             /\ out[k].Hourly[h + 1] =
                                   IF h >= N THEN in[k + 1].Hourly[h - N + 1]
                                   ELSE in[k].Hourly[24 - N + h + 1]
                             /\ out[k].HourlyUnique[h + 1] =
                                   IF h >= N THEN in[k + 1].HourlyUnique[h - N + 1]
                                   ELSE in[k].HourlyUnique[24 - N + h + 1]
                        ELSE /\ out[k].Day = in[k].Day
                             /\ out[k].Hourly[h + 1] =
                                   IF h < 24 + N THEN in[k].Hourly[h - N + 1]
                                   ELSE in[k + 1].Hourly[h - (24 + N) + 1]
                             /\ out[k].HourlyUnique[h + 1] =
                                   IF h < 24 + N THEN in[k].HourlyUnique[h - N + 1]
                                   ELSE in[k + 1].HourlyUnique[h - (24 + N) + 1]

\* C18 witness: three days shifted by +2 hours; the two days returned start
\* with the last two hours of the day before.
C18_Witness ==
    /\ lastQuery.op = "applyOffset" /\ lastQuery.offset = 120
    /\ Len(lastQuery.hh) = 1 /\ Len(lastQuery.hh[1].Stats) = 3
    /\ Len(lastQuery.out.hh[1].Stats) = 2
    /\ lastQuery.out.hh[1].Stats[1].Day = lastQuery.hh[1].Stats[2].Day
    /\ lastQuery.out.hh[1].Stats[1].Hourly[1] = lastQuery.hh[1].Stats[1].Hourly[23]
    /\ lastQuery.out.hh[1].Stats[1].Hourly[3] = lastQuery.hh[1].Stats[2].Hourly[1]

C20_RoundTrip ==
    (/\ lastQuery.op = "applyOffsetBack"
     /\ lastQuery.offset % 60 = 0
     /\ lastQuery.offset \div 60 \in -12..12
     /\ ~lastQuery.out.panic) =>
        \A i \in DOMAIN lastQuery.hh :
            LET in == lastQuery.hh[i].Stats
                out == lastQuery.out.hh[i].Stats
            IN  /\ \A k \in DOMAIN out : \E j \in DOMAIN in : in[j] = out[k]
                /\ (lastQuery.offset # 0 /\ Len(in) >= 2) =>
                      \A k \in DOMAIN out : out[k] = in[k + 1]
                /\ (lastQuery.offset # 0 /\ Len(in) >= 2) => Len(out) = Len(in) - 2
                /\ lastQuery.offset = 0 => out = in

\* C20 witness: three days shifted by -12 hours and back; the middle day is
\* returned as it was.
C20_Witness ==
    /\ lastQuery.op = "applyOffsetBack" /\ lastQuery.offset = -720
    /\ Len(lastQuery.hh) = 1 /\ Len(lastQuery.hh[1].Stats) = 3
    /\ ~lastQuery.out.panic
    /\ lastQuery.out.hh[1].Stats = <<lastQuery.hh[1].Stats[2]>>
    /\ lastQuery.first.hh[1].Stats[1] # lastQuery.hh[1].Stats[1]


\* C17: List and Totals never panic on a range with start > end or with
\* start = end, whatever the offset of the site's zone: the call returns.
C17_NeverPanics ==
    (lastQuery.op \in {"List", "Totals"} /\ lastQuery.start >= lastQuery.end)
        => lastQuery.out.done /\ ~lastQuery.out.panic


\* The number of stored hits of site s and path p created in hour h of the
\* day d (formatted), all of them or the first visits.
StoredIn(s, p, d, h, uniqueOnly) ==
    SumOver(rawHits, {x \in DOMAIN rawHits : /\ x.Site = s
                                             /\ x.PathID = p
                                             /\ FormatDate(x.CreatedAt) = d
                                             /\ HourOf(x.CreatedAt) = h
                                             /\ (uniqueOnly => x.FirstVisit)})

\* The HitStat hs returned by the last List has one Stat per day of the
\* window, each hour holding the stored hits of the path of that hour.
StatsAsStored(hs) ==
    LET first == lastQuery.start \div 48
        days == IF lastQuery.start > lastQuery.end THEN 0
                ELSE lastQuery.end \div 48 - first + 1
    IN  /\ Len(hs.Stats) = days
        /\ \A j \in DOMAIN hs.Stats :
              /\ hs.Stats[j].Day = FormatDay(first + j)
              /\ \A h \in 0..23 :
                    /\ hs.Stats[j].Hourly[h + 1] =
                          StoredIn(lastQuery.site, hs.PathID, hs.Stats[j].Day, h, FALSE)
                    /\ hs.Stats[j].HourlyUnique[h + 1] =
                          StoredIn(lastQuery.site, hs.PathID, hs.Stats[j].Day, h, TRUE)

\* The display totals of the last List are the sums of the hours of the
\* returned paths.
TotalsAsReturned ==
    LET hh == lastQuery.out.hh
        sum(i, uniqueOnly) ==
            SumSeq([j \in DOMAIN hh[i].Stats |->
                      SumSeq(IF uniqueOnly THEN hh[i].Stats[j].HourlyUnique ELSE hh[i].Stats[j].Hourly)])
    IN  /\ lastQuery.out.totalDisplay = SumSeq([i \in DOMAIN hh |-> sum(i, FALSE)])
        /\ lastQuery.out.totalUniqueDisplay = SumSeq([i \in DOMAIN hh |-> sum(i, TRUE)])

\* The stored hits of the site the last query was made for.
StoredOfSite == {x \in DOMAIN rawHits : x.Site = lastQuery.site}

\* C14 as stated: for a site with zero offset, a List over a window that
\* contains the stored hits returns, for each path of these hits, one Stat
\* per day with the hits of each hour, and the display totals are the sums
\* over the returned paths.
C14_EachPathListed ==
    (/\ lastQuery.op = "List"
     /\ settings[lastQuery.site].Offset = 0
     /\ StoredOfSite # {}
     /\ \A x \in StoredOfSite : lastQuery.start <= x.CreatedAt /\ x.CreatedAt <= lastQuery.end)
        => /\ lastQuery.out.done /\ ~lastQuery.out.panic
           /\ \A p \in {x.PathID : x \in StoredOfSite} :
                 \E i \in DOMAIN lastQuery.out.hh :
                    lastQuery.out.hh[i].PathID = p /\ StatsAsStored(lastQuery.out.hh[i])
           /\ TotalsAsReturned

\* C14: for a site with zero offset, List returns the paths that have a hit
\* whose hour begins within [start, end], at most Limits.Page of them (10
\* when it is 0; more is set when there are further ones); for each returned
\* path it returns one Stat per day of the window with the stored hits of
\* each hour, and the display totals are the sums over the returned paths.
C14_ReturnedPathsListed ==
    (lastQuery.op = "List" /\ settings[lastQuery.site].Offset = 0)
        => LET hh == lastQuery.out.hh
               page == ListLimit(settings[lastQuery.site].Page) - 1
               inWindow == {x.PathID : x \in {y \in StoredOfSite :
                                                  /\ lastQuery.start <= HourBucket(y.CreatedAt)
                                                  /\ HourBucket(y.CreatedAt) <= lastQuery.end}}
               returned == {hh[i].PathID : i \in DOMAIN hh}
           IN  /\ lastQuery.out.done /\ ~lastQuery.out.panic
               /\ \A i \in DOMAIN hh : StatsAsStored(hh[i])
               /\ TotalsAsReturned
               /\ returned \subseteq inWindow
               /\ Cardinality(returned) = Len(hh)
               /\ Len(hh) <= page
               /\ IF lastQuery.out.more THEN Len(hh) = page /\ returned # inWindow
                  ELSE returned = inWindow

\* A List for a site with zero offset over a window containing its two
\* stored hits returned both their paths.
C14_Witness ==
    /\ lastQuery.op = "List"
    /\ settings[lastQuery.site].Offset = 0
    /\ \A x \in StoredOfSite : lastQuery.start <= x.CreatedAt /\ x.CreatedAt <= lastQuery.end
    /\ Len(lastQuery.out.hh) = 2
    /\ lastQuery.out.totalDisplay = 2
    /\ lastQuery.out.totalUniqueDisplay = 1


\* C11: when the listing of the sites succeeds, DataRetention calls
\* DeleteOlderThan once for each site whose DataRetention is greater than 0,
\* with that number of days, and for no other site, whether or not some of
\* the calls fail, and it returns nil.
C11_CallsForPositive ==
    (lastRetention.op = "DataRetention" /\ ~lastRetention.listFails)
        => LET calls == lastRetention.calls
               positive == {s \in DOMAIN settings : settings[s].DataRetention > 0}
           IN  /\ ~lastRetention.err
               /\ {calls[i].site : i \in DOMAIN calls} = positive
               /\ Len(calls) = Cardinality(positive)
               /\ \A i \in DOMAIN calls : calls[i].days = settings[calls[i].site].DataRetention

\* DataRetention ran with two sites to clean and a third with a negative
\* setting: the call for the first failed, the call for the second deleted
\* hits.
C11_Witness ==
    /\ lastRetention.op = "DataRetention"
    /\ ~lastRetention.listFails
    /\ Len(lastRetention.calls) = 2
    /\ lastRetention.calls[1].err
    /\ ~lastRetention.calls[2].err
    /\ \E s \in DOMAIN settings : settings[s].DataRetention < 0
    /\ rawHits # lastRetention.before

RowsInWindow ==
    {r \in BagToSet(hitCounts) : /\ r.site_id = lastQuery.site
                                 /\ r.hour >= lastQuery.start
                                 /\ r.hour <= lastQuery.end}

\* sum(total_unique) of the path p over the rows in the window.
UniqueInWindow(p) ==
    SumOver([r \in RowsInWindow |-> hitCounts[r] * r.total_unique], {r \in RowsInWindow : r.path_id = p})

C22_SortedByCountUnique ==
    (lastQuery.op = "List" /\ lastQuery.out.done /\ ~lastQuery.out.panic)
        => LET hh == lastQuery.out.hh
           IN  /\ \A i \in DOMAIN hh :
                     hh[i].CountUnique =
                        SumSeq([j \in DOMAIN hh[i].Stats |-> SumSeq(hh[i].Stats[j].HourlyUnique)])
               /\ \A i, j \in DOMAIN hh : i < j => hh[i].CountUnique >= hh[j].CountUnique

\* A List for a site two hours east of UTC returned path 1 before path 2,
\* while the query ranks path 2 first (as many unique visits, higher id):
\* the unique visit of path 2 is on the first day, which the offset drops.
C22_Witness ==
    /\ lastQuery.op = "List"
    /\ settings[lastQuery.site].Offset = 120
    /\ Len(lastQuery.out.hh) = 2
    /\ lastQuery.out.hh[1].PathID = 1 /\ lastQuery.out.hh[1].CountUnique = 1
    /\ lastQuery.out.hh[2].PathID = 2 /\ lastQuery.out.hh[2].CountUnique = 0
    /\ UniqueInWindow(1) = 1 /\ UniqueInWindow(2) = 1

\* C23: when two windows that do not overlap have together the hours of
\* [start, end], the Count and the CountUnique Totals computes for them add
\* up to those it computes for [start, end], whatever the offset of the site.
C23_TotalsAdditive ==
    lastQuery.op = "TotalsSplit"
        => /\ lastQuery.whole.done /\ lastQuery.w1.done /\ lastQuery.w2.done
           /\ ~lastQuery.whole.panic /\ ~lastQuery.w1.panic /\ ~lastQuery.w2.panic
           /\ lastQuery.w1.h.Count + lastQuery.w2.h.Count = lastQuery.whole.h.Count
           /\ lastQuery.w1.h.CountUnique + lastQuery.w2.h.CountUnique = lastQuery.whole.h.CountUnique

\* Totals for a site two hours west of UTC counted one hit in each of the
\* two windows and both in the whole, one of them a first visit.
C23_Witness ==
    /\ lastQuery.op = "TotalsSplit"
    /\ settings[lastQuery.site].Offset = -120
    /\ lastQuery.w1.h.Count = 1
    /\ lastQuery.w2.h.Count = 1
    /\ lastQuery.whole.h.Count = 2
    /\ lastQuery.whole.h.CountUnique = 1

\* C24 as stated: no Max that List reports for a path is below 10, and
\* Totals never returns a maximum below 10.
C24_MaxFloor ==
    /\ (lastQuery.op = "List" /\ lastQuery.out.done /\ ~lastQuery.out.panic)
          => \A i \in DOMAIN lastQuery.out.hh : lastQuery.out.hh[i].Max >= 10
    /\ (lastQuery.op = "Totals" /\ lastQuery.out.done /\ ~lastQuery.out.panic)
          => lastQuery.out.max >= 10

\* C24: the Max List reports for a path is the largest value of an hour of
\* its returned Stats, or of a day when daily is set, and 0 when there is
\* none: it has no floor.  The maximum Totals returns is the largest value
\* of an hour of the rows in the window, or of a day of its returned Stats
\* when daily is set, and 10 when that is less.
C24_MaxAsComputed ==
    /\ (lastQuery.op = "List" /\ lastQuery.out.done /\ ~lastQuery.out.panic)
          => \A i \in DOMAIN lastQuery.out.hh :
                LET st == lastQuery.out.hh[i].Stats
                    seen == IF lastQuery.daily THEN {st[j].Daily : j \in DOMAIN st}
                            ELSE UNION {{st[j].Hourly[k] : k \in DOMAIN st[j].Hourly} : j \in DOMAIN st}
                IN  lastQuery.out.hh[i].Max = MaxOf({0} \cup seen)
    /\ (lastQuery.op = "Totals" /\ lastQuery.out.done /\ ~lastQuery.out.panic)
          => LET st == lastQuery.out.h.Stats
                 ofHour(t) == SumOver([r \in RowsInWindow |-> hitCounts[r] * r.total],
                                      {r \in RowsInWindow : r.hour = t})
                 seen == IF lastQuery.daily THEN {SumSeq(st[j].Hourly) : j \in DOMAIN st}
                         ELSE {ofHour(r.hour) : r \in RowsInWindow}
             IN  /\ lastQuery.out.max >= 10
                 /\ lastQuery.out.max = MaxOf({10} \cup seen)

\* A List returned a path with two hits in one hour and a Max of 2.
C24_Witness ==
    /\ lastQuery.op = "List"
    /\ ~lastQuery.daily
    /\ Len(lastQuery.out.hh) = 1
    /\ lastQuery.out.hh[1].Count = 2
    /\ lastQuery.out.hh[1].Max = 2

\* C30: a call of updateLocationStats that returns an error, whichever
\* statement failed, leaves the location_stats table as it was before the
\* call: a row read and deleted for merging is still there.
C30_AllOrNothing ==
    (lastCall.op = "updateLocationStats" /\ lastCall.err)
        => tables["location_stats"] = lastCall.before["location_stats"]

\* An incremental call failed at the bulk insert after it had read and
\* deleted the existing row of one of its groups, and the row is there.
C30_Witness ==
    /\ lastCall.op = "updateLocationStats"
    /\ lastCall.err
    /\ lastCall.fail = "insert"
    /\ ~lastCall.isReindex
    /\ RowsOfKeys(lastCall.before["location_stats"], lastCall.hits) # {}
    /\ RowsOfKeys(tables["location_stats"], lastCall.hits)
          = RowsOfKeys(lastCall.before["location_stats"], lastCall.hits)


\* Two paths that differ only by slashes at the end or by letter case.
SameButSlashCase(a, b) == Lower(TrimRight(a, "/")) = Lower(TrimRight(b, "/"))

RowsOfKey(site, path) == {i \in DOMAIN pathsTable : PathMatches(pathsTable[i], site, path)}

\* C25: whenever no call of GetOrInsert is under way, a site and path the
\* calls so far resolved have at most one paths row, and each call for them
\* returned without error the ID of that row.
C25_OneRowOneID ==
    (\A p \in PathProcs : pathProc[p].pc = "idle") =>
        \A r \in pathResults :
            PathValid(r.path) =>
                /\ Cardinality(RowsOfKey(r.site, r.path)) <= 1
                /\ ~r.err
                /\ \A i \in RowsOfKey(r.site, r.path) : r.id = pathsTable[i].ID


\* C29: the list cached for a path ID holds each title the calls of
\* updateTitle recorded since the entry was last deleted, once and in the
\* order of the recording, and there is no list where nothing was recorded.
C29_EachTitleRecordedOnce == changedTitles = titleSeen


\* A line that fails to read, to parse or to validate.
LineFails(l) ==
    ~l.csv \/ ExportRowRead(l).err \/ HitInvalid(l) \/ ~SizeParses(l.Size)

LinePasses(l) == ~LineFails(l)

\* C27: an Import that got past the header appended to the Memstore the
\* hits of exactly the lines that read, parse and validate, in their
\* order, counted them as its imported rows and recorded one error for each
\* other line.
C27_InvalidRowsSkipped ==
    (lastImport.op = "Import" /\ lastImport.started) =>
        LET valid == SelectSeq(lastImport.lines, LinePasses)
        IN  /\ lastImport.n = Len(valid)
            /\ lastImport.errs = Len(lastImport.lines) - Len(valid)
            /\ Len(lastImport.hits) = Len(valid)
            /\ \A i \in DOMAIN valid :
                [lastImport.hits[i] EXCEPT !.Session = [hi |-> 0, lo |-> 0]]
                    = ExportRowHit(valid[i], TheSite).hit


\* The cursor a run leaves after the rows it wrote: the ID of the last of
\* them, and the cursor it started from when it wrote none.
CursorAfter(id) ==
    LET rows == exportWritten[id].rows
    IN  IF Len(rows) > 0 THEN rows[Len(rows)] ELSE exportsTable[id].StartFromHitID

\* C28: a run of Export.Run whose context was cancelled inside its loop and
\* that has returned wrote no row after the cancellation, its exports row
\* holds as last_hit_id the ID of the last row it wrote, and an export
\* started later from that cursor wrote none of its rows again.
C28_CancelLeavesCursor ==
    \A id \in DOMAIN exportWritten :
        (exportWritten[id].done /\ exportWritten[id].midLoop) =>
            /\ Len(exportWritten[id].rows) = exportWritten[id].atCancel
            /\ exportsTable[id].LastHitID = CursorAfter(id)
            /\ \A later \in DOMAIN exportWritten :
                (later > id /\ exportsTable[later].StartFromHitID = exportsTable[id].LastHitID) =>
                    \A i \in DOMAIN exportWritten[later].rows, j \in DOMAIN exportWritten[id].rows :
                        exportWritten[later].rows[i] # exportWritten[id].rows[j]


\* C34: for every line Import handed to ExportRow.Hit whose path is empty,
\* whose event, first-visit, bot or date field does not parse or whose
\* referrer scheme is not an allowed one, Hit returned an error, whatever
\* the other fields of the line hold.
C34_InvalidRowRejected ==
    (lastImport.op = "Import" /\ lastImport.started) =>
        \A i \in DOMAIN lastImport.lines :
            LET l == lastImport.lines[i]
            IN  (l.csv /\ ~ExportRowRead(l).err /\ HitInvalid(l)) => ExportRowHit(l, TheSite).err


\* C35: an Import with replace whose header could not be read or has
\* another version left the hits and the rollups as they were and appended
\* no hit to the Memstore; one that deleted the data of the site had a
\* header that passed.
C35_DeleteAfterHeader ==
    lastImport.op = "ImportReplace" =>
        /\ lastImport.header # "ok" =>
            /\ rawHits = lastImport.before.raw
            /\ hitCounts = lastImport.before.counts
            /\ hitStats = lastImport.before.stats
            /\ lastImport.hits = <<>>
            /\ ~lastImport.deleted
        /\ lastImport.deleted => lastImport.header = "ok"

\* An Import with replace and a header of another version for a site that
\* has hits stored.
C35_Witness ==
    /\ lastImport.op = "ImportReplace"
    /\ lastImport.header = "version"
    /\ ~lastImport.deleteFails
    /\ lastImport.lines # <<>>
    /\ \E x \in BagToSet(rawHits) : x.Site = lastImport.site


\* The hits with the IDs from+1..to, in ascending order.
HitsBetween(from, to) == IF to > from THEN [i \in 1..(to - from) |-> from + i] ELSE <<>>

\* What a step of the running export keeps: a turn of the loop does not
\* lower the cursor and writes at most one page; the turn that finds no
\* further hit leaves written each hit after StartFromHitID once and in
\* ascending order; the update that marks the export finished stores the ID
\* of the last row written (StartFromHitID when there is none) as
\* last_hit_id and the number of rows written as num_rows.
ExportStepOk ==
    exportProc.pc # "idle" =>
        LET id == exportProc.id
            rows == exportWritten[id].rows
            rowsAfter == exportWritten'[id].rows
        IN  /\ exportProc.pc = "fetch" =>
                /\ exportProc'.last >= exportProc.last
                /\ Len(rowsAfter) - Len(rows) <= ExportLimit
                /\ exportProc'.pc = "finish" =>
                    rowsAfter = HitsBetween(exportsTable[id].StartFromHitID, exportHits)
            /\ exportsTable'[id].Finished =>
                /\ exportsTable'[id].LastHitID =
                        (IF Len(rowsAfter) > 0 THEN rowsAfter[Len(rowsAfter)]
                         ELSE exportsTable[id].StartFromHitID)
                /\ exportsTable'[id].NumRows = Len(rowsAfter)
                /\ rowsAfter = HitsBetween(exportsTable[id].StartFromHitID, exportsTable'[id].LastHitID)

\* C32: an Export.Run that completes without error has written every hit
\* of the site after StartFromHitID that was there when its loop ended,
\* once and in ascending order, in pages of at most the limit; its cursor
\* never decreases and is stored as the ID of the last row written, its
\* NumRows as the number of rows written.
C32_ExportsEachHitOnce == [][ExportStepOk]_vars

\* An export from the beginning is finished with three rows written, more
\* than one page.
C32_Witness ==
    \E id \in DOMAIN exportsTable :
        /\ exportsTable[id].Finished
        /\ exportsTable[id].StartFromHitID = 0
        /\ exportWritten[id].rows = <<1, 2, 3>>
        /\ exportsTable[id].LastHitID = 3


\* What holds of an export whose run took the error path, apart from its
\* error field: the file is removed and finished_at, num_rows and
\* last_hit_id were never written.
FailedLeavesNothing(id) ==
    /\ exportFiles[id] = Removed
    /\ ~exportsTable[id].Finished
    /\ exportsTable[id].NumRows = NoHitID
    /\ exportsTable[id].LastHitID = NoHitID

\* C36 as stated: an export whose run had a page fetch or a write fail has
\* its error field set, its file removed and nothing else written to its
\* row, and an export marked finished had no error.
C36_ErrorSet ==
    \A id \in DOMAIN exportWritten :
        /\ exportWritten[id].failed => (exportsTable[id].Error /\ FailedLeavesNothing(id))
        /\ exportsTable[id].Finished => (~exportWritten[id].failed /\ ~exportsTable[id].Error)

\* C36: an export whose run had a page fetch or a write fail has its file
\* removed and nothing but the error written to its row, and the error
\* field is set exactly when the update that writes it succeeded, which it
\* does not when the context is cancelled; an export marked finished had no
\* error.
C36_ErrorSetIfUpdated ==
    \A id \in DOMAIN exportWritten :
        /\ exportWritten[id].failed =>
            /\ exportsTable[id].Error = ~exportWritten[id].updateFailed
            /\ FailedLeavesNothing(id)
        /\ exportsTable[id].Finished => (~exportWritten[id].failed /\ ~exportsTable[id].Error)

\* A run that had written a page took the error path and its error is in
\* the exports row.
C36_Witness ==
    \E id \in DOMAIN exportWritten :
        /\ exportWritten[id].failed
        /\ Len(exportWritten[id].rows) > 0
        /\ exportsTable[id].Error
        /\ ~exportWritten[id].midLoop


\* What a step of the callers keeps.  A step that changes the title of a
\* paths row changes it to another title, one recorded more than ten times
\* since the cache entry of the path was last deleted, and leaves its caller
\* before the Delete of that entry; a call reaches the cache only with a
\* title other than the one its select read; the Delete leaves no entry.
TitleStepOk ==
    /\ \A i \in DOMAIN pathsTable :
        pathsTable'[i].Title # pathsTable[i].Title =>
            /\ Grouped(Cached(titleSeen, TitleKey(pathsTable[i].ID)), pathsTable'[i].Title) > 10
            /\ \E p \in PathProcs :
                /\ pathProc[p].pc = "update" /\ pathProc'[p].pc = "delete"
                /\ pathProc[p].id = pathsTable[i].ID
    /\ changedTitles' # changedTitles =>
        \E p \in PathProcs : pathProc[p].pc \in {"set", "modify", "delete"} /\ pathProc'[p] # pathProc[p]
    /\ \A p \in PathProcs :
        /\ (pathProc[p].pc = "idle" /\ pathProc'[p].pc = "get") =>
            \E i \in DOMAIN pathsTable :
                /\ pathsTable[i].ID = pathProc'[p].id
                /\ pathsTable[i].Title # pathProc'[p].title
        /\ (pathProc[p].pc = "delete" /\ pathProc'[p].pc = "idle") =>
            TitleKey(pathProc[p].id) \notin DOMAIN changedTitles'

\* C33: the stored title of a path changes only to a different title that
\* was observed more than ten times since the path's cache entry was last
\* removed; a call whose title equals the stored one it read counts
\* nothing; the caller that updated the title removes the cache entry.
C33_TitleAfterTen == [][TitleStepOk]_vars

\* A caller has written a title it found eleven times in the list and is
\* about to delete the entry.
C33_Witness ==
    \E p \in PathProcs :
        /\ pathProc[p].pc = "delete"
        /\ pathsTable[1].Title = pathProc[p].title
        /\ Grouped(pathProc[p].titles, pathProc[p].title) = 11


\* Every Stat of the sequence has 24 hours in both arrays.
AllOf24(stats) ==
    \A k \in DOMAIN stats : Len(stats[k].Hourly) = 24 /\ Len(stats[k].HourlyUnique) = 24

\* List and Totals on a range with start <= end return, and every Stat
\* they return has 24 hours in both arrays.
ReturnsOf24 ==
    /\ (lastQuery.op = "List" /\ lastQuery.start <= lastQuery.end) =>
        /\ lastQuery.out.done /\ ~lastQuery.out.panic
        /\ \A i \in DOMAIN lastQuery.out.hh : AllOf24(lastQuery.out.hh[i].Stats)
    /\ (lastQuery.op = "Totals" /\ lastQuery.start <= lastQuery.end) =>
        /\ lastQuery.out.done /\ ~lastQuery.out.panic
        /\ AllOf24(lastQuery.out.h.Stats)

C37_ErrorIffPersistFailed ==
    lastCall.op = "PersistAndStat" =>
        /\ lastCall.err <=> lastCall.persistErr
        /\ ~lastCall.persistErr => LastMemstore = lastCall.now
        /\ lastCall.persistErr => LastMemstore = lastCall.lastBefore

\* Persist succeeded, the UpdateStats call of a site failed, no error was
\* returned and LastMemstore moved to the time of the call.
C37_Witness ==
    /\ lastCall.op = "PersistAndStat"
    /\ ~lastCall.persistErr
    /\ \E s \in DOMAIN lastCall.calls : lastCall.calls[s].err
    /\ ~lastCall.err
    /\ LastMemstore = lastCall.now
    /\ LastMemstore # lastCall.lastBefore


(***************************************************************************)
(* location_stats: one row per key                                         *)
(***************************************************************************)
\* The number of rows of tbl with the key (site, day, location, path_id).
LocRowsOfKey(tbl, site, day, loc, path) ==
    SumOver(tbl, {r \in BagToSet(tbl) : LocMatches(r, site, day, loc, path)})

LocOneRowPerKey(tbl) ==
    \A r \in BagToSet(tbl) : LocRowsOfKey(tbl, r.site_id, r.day, r.location, r.path_id) = 1

\* C38: a successful incremental updateLocationStats call on a table with at
\* most one row per key (site, day, location, path_id) leaves a table with at
\* most one row per key.
C38_OneRowPerKeyKept ==
    ( /\ lastCall.op = "updateLocationStats"
      /\ ~lastCall.isReindex
      /\ ~lastCall.err
      /\ LocOneRowPerKey(lastCall.before["location_stats"]) )
    => LocOneRowPerKey(tables["location_stats"])

\* A successful incremental call on a table with one row per key, with a
\* batch that counts two hits under one key, a hit of a key that had a row and
\* a hit of a key that had none.
C38_Witness ==
    LET before == lastCall.before["location_stats"]
        counted == {i \in DOMAIN lastCall.hits : ~LocSkips(lastCall.hits[i])}
        Had(h) == LocRowsOfKey(before, h.Site, FormatDay(h.CreatedAt), h.Location, h.PathID) > 0
    IN  /\ lastCall.op = "updateLocationStats"
        /\ ~lastCall.isReindex
        /\ ~lastCall.err
        /\ before # EmptyBag
        /\ LocOneRowPerKey(before)
        /\ \E i, j \in counted : i # j /\ LocKey(lastCall.hits[i]) = LocKey(lastCall.hits[j])
        /\ \E i \in counted : Had(lastCall.hits[i])
        /\ \E i \in counted : ~Had(lastCall.hits[i])
        /\ LocOneRowPerKey(tables["location_stats"])

=============================================================================
